---- MODULE Spec2Model ----
(***************************************************************************)
(* Text-windowing, prompt-evidence and response-parsing logic of the       *)
(* ai-devops-projects tools.  Strings are sequences of one-character       *)
(* strings; Python's 0-based indices are kept for line ranges.             *)
(***************************************************************************)
EXTENDS Integers, Sequences, FiniteSets, TLC

VARIABLES
  tool,             \* which tool's run this is: "healer", "k8s", "terraform", "scanner"
  pc,               \* position of the run
  logs,             \* healer: the job log handed to extract_error_from_logs
  error_blocks,     \* healer: [start, end) line ranges of the emitted error blocks
  evidence,         \* healer: `result` before the length check / the fallback tail
  error_logs,       \* healer: value returned by extract_error_from_logs
  limited_logs,     \* healer: text interpolated under ERROR LOGS in the prompt
  text,             \* k8s: the model response handed to _remove_repeated_suffix
  deduped,          \* k8s: _remove_repeated_suffix(text)
  deduped_again,    \* k8s: _remove_repeated_suffix applied to deduped
  ai_response,      \* terraform / scanner: the text returned by ask_ollama
  files,            \* terraform: the dict returned by parse_terraform_files
  parsed,           \* scanner: the dict `parsed` of generate_summary
  env,              \* entry points: what the process finds outside itself
  locals,           \* entry points: the local variables of the running function
  calls,            \* entry points: the external calls and reports made so far
  exit_status       \* entry points: "running", or how the process ended

healerVars == <<logs, error_blocks, evidence, error_logs, limited_logs>>
k8sVars == <<text, deduped, deduped_again>>
responseVars == <<ai_response, files, parsed>>

runVars == <<env, locals, calls, exit_status>>

vars == <<tool, pc, healerVars, k8sVars, responseVars, runVars>>

\* the variables of the tools that are not running
HealerIdle ==
  /\ logs = << >>
  /\ error_blocks = << >>
  /\ evidence = << >>
  /\ error_logs = << >>
  /\ limited_logs = << >>

K8sIdle == text = << >> /\ deduped = << >> /\ deduped_again = << >>

ResponseIdle == ai_response = << >> /\ files = << >> /\ parsed = << >>

RunIdle ==
  /\ env = << >>
  /\ locals = << >>
  /\ calls = << >>
  /\ exit_status = "running"

-----------------------------------------------------------------------------
(* Python string primitives *)

Max(a, b) == IF a >= b THEN a ELSE b
Min(a, b) == IF a <= b THEN a ELSE b

NL == "\n"

\* the character U+0060 (a string literal cannot hold it)
Backquote == "grave"

UpperCase == <<"A","B","C","D","E","F","G","H","I","J","K","L","M",
               "N","O","P","Q","R","S","T","U","V","W","X","Y","Z">>
LowerCase == <<"a","b","c","d","e","f","g","h","i","j","k","l","m",
               "n","o","p","q","r","s","t","u","v","w","x","y","z">>

\* str.lower() on one character
LowerChar(c) ==
  IF \E k \in 1..26 : UpperCase[k] = c
  THEN LowerCase[CHOOSE k \in 1..26 : UpperCase[k] = c]
  ELSE c

\* str.lower()
Lower(s) == [i \in 1..Len(s) |-> LowerChar(s[i])]

\* s[:n] for n >= 0
Take(s, n) == SubSeq(s, 1, Min(n, Len(s)))

\* s[n:] for n >= 0
Drop(s, n) == SubSeq(s, n + 1, Len(s))

\* whether sub occurs in s at 0-based offset p
MatchAt(s, sub, p) ==
  /\ p + Len(sub) <= Len(s)
  /\ \A j \in 1..Len(sub) : s[p + j] = sub[j]

\* `sub in s`
Contains(s, sub) == \E p \in 0..(Len(s) - Len(sub)) : MatchAt(s, sub, p)

\* s.endswith(sub)
EndsWith(s, sub) == Len(sub) <= Len(s) /\ MatchAt(s, sub, Len(s) - Len(sub))

Whitespace == {" ", "\n", "\t", "\r"}

\* s.rstrip()
RStrip(s) ==
  LET keep == {i \in 1..Len(s) : s[i] \notin Whitespace}
  IN  IF keep = {} THEN << >>
      ELSE SubSeq(s, 1, CHOOSE i \in keep : \A j \in keep : j <= i)

\* s.strip()
Strip(s) ==
  LET keep == {i \in 1..Len(s) : s[i] \notin Whitespace}
  IN  IF keep = {} THEN << >>
      ELSE SubSeq(s, CHOOSE i \in keep : \A j \in keep : i <= j,
                     CHOOSE i \in keep : \A j \in keep : j <= i)

\* s.find(sub, from): the lowest 0-based offset >= from, or -1
Find(s, sub, from) ==
  LET hits == {p \in from..(Len(s) - Len(sub)) : MatchAt(s, sub, p)}
  IN  IF hits = {} THEN -1 ELSE CHOOSE p \in hits : \A q \in hits : p <= q

\* s.split(sep) for a non-empty sep
RECURSIVE SplitOn(_, _)
SplitOn(s, sep) ==
  LET p == Find(s, sep, 0)
  IN  IF p = -1 THEN <<s>>
      ELSE <<Take(s, p)>> \o SplitOn(Drop(s, p + Len(sep)), sep)

\* s.replace(old, '', 1)
RemoveFirst(s, old) ==
  LET p == Find(s, old, 0)
  IN  IF p = -1 THEN s ELSE Take(s, p) \o Drop(s, p + Len(old))

\* s.replace(old, '')
RECURSIVE RemoveAll(_, _)
RemoveAll(s, old) ==
  LET p == Find(s, old, 0)
  IN  IF p = -1 THEN s ELSE Take(s, p) \o RemoveAll(Drop(s, p + Len(old)), old)

\* d[key] = value on a dict d
Put(d, key, value) ==
  [k \in (DOMAIN d) \cup {key} |-> IF k = key THEN value ELSE d[k]]

\* s.split('\n'): always at least one piece
SplitLines(s) ==
  LET nl  == {i \in 1..Len(s) : s[i] = NL}
      cnt == Cardinality(nl)
      pos == [k \in 0..(cnt + 1) |->
                IF k = 0 THEN 0
                ELSE IF k = cnt + 1 THEN Len(s) + 1
                ELSE CHOOSE p \in nl : Cardinality({q \in nl : q < p}) = k - 1]
  IN  [k \in 1..(cnt + 1) |-> SubSeq(s, pos[k - 1] + 1, pos[k] - 1)]

\* '\n'.join(parts)
RECURSIVE JoinLines(_)
JoinLines(parts) ==
  IF Len(parts) = 0 THEN << >>
  ELSE IF Len(parts) = 1 THEN parts[1]
  ELSE JoinLines(SubSeq(parts, 1, Len(parts) - 1)) \o <<NL>> \o parts[Len(parts)]

Digit == <<"0","1","2","3","4","5","6","7","8","9">>

\* str(n) for n >= 0
RECURSIVE IntToStr(_)
IntToStr(n) ==
  IF n < 10 THEN <<Digit[n + 1]>>
  ELSE IntToStr(n \div 10) \o <<Digit[(n % 10) + 1]>>

-----------------------------------------------------------------------------
(* github_actions_healer.py: extract_error_from_logs *)

error_keywords == <<
  <<"e","r","r","o","r",":">>,
  <<"e","r","r","o","r"," ">>,
  <<"E","R","R","O","R",":">>,
  <<"E","R","R","O","R"," ">>,
  <<"f","a","i","l","e","d">>,
  <<"f","a","i","l","u","r","e">>,
  <<"f","a","i","l",":">>,
  <<"F","A","I","L","E","D">>,
  <<"n","o","t"," ","f","o","u","n","d">>,
  <<"d","o","e","s"," ","n","o","t"," ","e","x","i","s","t">>,
  <<"n","o"," ","s","u","c","h"," ","f","i","l","e">>,
  <<"e","x","c","e","p","t","i","o","n">>,
  <<"t","r","a","c","e","b","a","c","k">>,
  <<"T","r","a","c","e","b","a","c","k">>,
  <<"f","a","t","a","l",":">>,
  <<"c","a","n","n","o","t">>,
  <<"u","n","a","b","l","e"," ","t","o">>,
  <<"e","x","i","t"," ","c","o","d","e">>,
  <<"r","e","t","u","r","n","e","d"," ","n","o","n","-","z","e","r","o">>,
  <<"c","o","m","m","a","n","d"," ","n","o","t"," ","f","o","u","n","d">>,
  <<"p","e","r","m","i","s","s","i","o","n"," ","d","e","n","i","e","d">> >>

ContextBefore == 8
ContextAfter == 12
CharBudget == 1500
FallbackLines == 40
PromptLogLimit == 1200

TruncationMarker ==
  <<"\n",".",".","."," ","(","t","r","u","n","c","a","t","e","d"," ",
    "f","o","r"," ","b","r","e","v","i","t","y",")">>

\* any(keyword in line_lower for keyword in error_keywords)
IsErrorLine(line) ==
  LET line_lower == Lower(line)
  IN  \E k \in 1..Len(error_keywords) : Contains(line_lower, error_keywords[k])

\* the texts among `lines` that pass the keyword test of line 189 (the test
\* reads nothing but the line's text, so it is decided once per distinct text)
ErrorTexts(lines) == {t \in {lines[i] : i \in 1..Len(lines)} : IsErrorLine(t)}

\* a loop that marks one line too many as seen: range(start, end + 1)
RECURSIVE ScanLines_SeenOneMore(_, _, _, _, _)
ScanLines_SeenOneMore(lines, errs, i, seen_lines, blocks) ==
  IF i >= Len(lines) THEN blocks
  ELSE IF lines[i + 1] \in errs /\ i \notin seen_lines
       THEN LET start == Max(0, i - ContextBefore)
                end   == Min(Len(lines), i + ContextAfter)
            IN  ScanLines_SeenOneMore(lines, errs, i + 1, seen_lines \cup (start..end),
                                      Append(blocks, [start |-> start, end |-> end]))
       ELSE ScanLines_SeenOneMore(lines, errs, i + 1, seen_lines, blocks)

\* the for loop over enumerate(lines), from index i on: the ranges of the
\* sections appended to error_sections, in order
RECURSIVE ScanLines(_, _, _, _, _)
ScanLines(lines, errs, i, seen_lines, blocks) ==
  IF i >= Len(lines) THEN blocks
  ELSE IF lines[i + 1] \in errs /\ i \notin seen_lines
       THEN LET start == Max(0, i - ContextBefore)
                end   == Min(Len(lines), i + ContextAfter)
            IN  ScanLines(lines, errs, i + 1, seen_lines \cup (start..(end - 1)),
                          Append(blocks, [start |-> start, end |-> end]))
       ELSE ScanLines(lines, errs, i + 1, seen_lines, blocks)

ErrorBlocks(lines) == ScanLines(lines, ErrorTexts(lines), 0, {}, << >>)

\* f"--- Error Block {len(error_sections)+1} ---", n being len(error_sections)+1
BlockHeader(n) ==
  <<"-","-","-"," ","E","r","r","o","r"," ","B","l","o","c","k"," ">>
    \o IntToStr(n) \o <<" ","-","-","-">>

\* a slice that stops one line early: lines[start:end-1]
RECURSIVE ErrorSections_ShortSlice(_, _, _, _)
ErrorSections_ShortSlice(lines, blocks, k, acc) ==
  IF k > Len(blocks) THEN acc
  ELSE ErrorSections_ShortSlice(lines, blocks, k + 1,
         acc \o << BlockHeader(Len(acc) + 1),
                   JoinLines(SubSeq(lines, blocks[k].start + 1, blocks[k].end - 1)),
                   << >> >>)

\* the list error_sections after the blocks from the k-th on are appended to
\* acc: header, section and blank separator per block
RECURSIVE ErrorSections(_, _, _, _)
ErrorSections(lines, blocks, k, acc) ==
  IF k > Len(blocks) THEN acc
  ELSE ErrorSections(lines, blocks, k + 1,
         acc \o << BlockHeader(Len(acc) + 1),
                   JoinLines(SubSeq(lines, blocks[k].start + 1, blocks[k].end)),
                   << >> >>)

\* a tail that is one line too long: lines[-41:]
LastLines_OneMore(lines) == SubSeq(lines, Max(1, Len(lines) - FallbackLines), Len(lines))

\* lines[-40:]
LastLines(lines) == SubSeq(lines, Max(1, Len(lines) - FallbackLines + 1), Len(lines))

\* `result` as joined at line 212, or the fallback tail of line 219
RenderedEvidence(lines, blocks) ==
  IF Len(blocks) > 0 THEN JoinLines(ErrorSections(lines, blocks, 1, << >>))
  ELSE JoinLines(LastLines(lines))

\* the length check of lines 214-215, applied on the keyword-match path only
Truncate(result, matched) ==
  IF matched /\ Len(result) > CharBudget
  THEN Take(result, CharBudget) \o TruncationMarker
  ELSE result

\* analyze_failure: limited_logs = error_logs[:1200]
LimitLogs(error_text) == Take(error_text, PromptLogLimit)

-----------------------------------------------------------------------------
(* Inputs of the healer run *)

MaxLines == 42
FillerWidth == 64

KeywordLineA == <<"s","t","e","p"," ","f","a","i","l","e","d">>
KeywordLineB ==
  <<"E","R","R","O","R",":"," ","n","o"," ","s","u","c","h"," ","f","i","l","e">>

Filler(w) == [i \in 1..w |-> "x"]

FirstMatch == {0, 1, 10}
Gaps == {0, 5, 12, 20}
Widths == {0, 1, FillerWidth}

\* a log of n lines, keyword lines at (1-based) k1 and k2, other lines w wide
MkLog(n, k1, k2, w) ==
  JoinLines([i \in 1..n |-> IF i = k1 THEN KeywordLineA
                           ELSE IF i = k2 THEN KeywordLineB
                           ELSE Filler(w)])

Periods == {5, 12, 20}

\* a log of n lines with a keyword line every `period` lines, from the first on
MkPeriodicLog(n, period, w) ==
  JoinLines([i \in 1..n |-> IF i % period = 1 THEN KeywordLineA ELSE Filler(w)])

LogInputs ==
  { MkLog(n, k1, IF g = 0 \/ k1 = 0 THEN 0 ELSE k1 + g, w) :
      n \in 0..MaxLines, k1 \in FirstMatch, g \in Gaps, w \in Widths }
    \cup { MkPeriodicLog(n, period, w) :
             n \in 0..MaxLines, period \in Periods, w \in Widths }

-----------------------------------------------------------------------------
(* The healer run: extract_error_from_logs, then analyze_failure *)

HealerInit ==
  /\ tool = "healer"
  /\ pc = "fetched"
  /\ logs \in LogInputs
  /\ error_blocks = << >>
  /\ evidence = << >>
  /\ error_logs = << >>
  /\ limited_logs = << >>
  /\ K8sIdle
  /\ ResponseIdle
  /\ RunIdle

ExtractErrorFromLogs ==
  /\ tool = "healer"
  /\ pc = "fetched"
  /\ LET lines  == SplitLines(logs)
         blocks == ErrorBlocks(lines)
         result == RenderedEvidence(lines, blocks)
     IN  /\ error_blocks' = blocks
         /\ evidence' = result
         /\ error_logs' = Truncate(result, Len(blocks) > 0)
  /\ pc' = "extracted"
  /\ UNCHANGED <<tool, logs, limited_logs, k8sVars, responseVars, runVars>>

AnalyzeFailure ==
  /\ tool = "healer"
  /\ pc = "extracted"
  /\ limited_logs' = LimitLogs(error_logs)
  /\ pc' = "analyzed"
  /\ UNCHANGED <<tool, logs, error_blocks, evidence, error_logs, k8sVars, responseVars, runVars>>

HealerNext == ExtractErrorFromLogs \/ AnalyzeFailure

SpecHealer == HealerInit /\ [][HealerNext]_vars

-----------------------------------------------------------------------------
(* Properties of extract_error_from_logs and analyze_failure *)

Extracted == tool = "healer" /\ pc \in {"extracted", "analyzed"}

\* C1: the line ranges of the emitted error blocks are pairwise disjoint: no
\* line index of the log is rendered in more than one error block.
C1_BlocksDisjoint ==
  Extracted =>
    \A a, b \in 1..Len(error_blocks) :
      a < b => error_blocks[a].end <= error_blocks[b].start

\* C2: on both return paths the returned string is at most the character
\* budget plus the length of the truncation marker long.
C2_LengthWithinBudget ==
  Extracted => Len(error_logs) <= CharBudget + Len(TruncationMarker)

\* C3 as stated: for every line that contains a keyword the returned string is
\* non-empty and contains the full text of that line.
C3_EveryKeywordLineReturned ==
  Extracted =>
    \A t \in ErrorTexts(SplitLines(logs)) :
      error_logs # << >> /\ Contains(error_logs, t)

\* C3 amended: for every line that contains a keyword the returned string is
\* non-empty, and it contains the full text of that line whenever the joined
\* error blocks fit the character budget (nothing was truncated).
C3_KeywordLineReturnedIfUntruncated ==
  Extracted =>
    \A t \in ErrorTexts(SplitLines(logs)) :
      /\ error_logs # << >>
      /\ Len(evidence) <= CharBudget => Contains(error_logs, t)

C3_Witness ==
  /\ Extracted
  /\ Len(error_blocks) = 2
  /\ Len(evidence) <= CharBudget
  /\ Len(evidence) > CharBudget \div 2
  /\ ErrorTexts(SplitLines(logs)) = {KeywordLineA, KeywordLineB}
  /\ Contains(error_logs, KeywordLineB)

\* C4: with no keyword line the result is exactly the last min(40, n) lines of
\* the n-line log joined by newlines, and the result is the empty string if
\* and only if the log is empty.
C4_FallbackTail ==
  Extracted =>
    LET lines == SplitLines(logs)
        n     == Len(lines)
        m     == Min(FallbackLines, n)
    IN  /\ ErrorTexts(lines) = {} =>
             error_logs = JoinLines([k \in 1..m |-> lines[n - m + k]])
        /\ error_logs = << >> <=> logs = << >>

C4_Witness ==
  /\ Extracted
  /\ Len(SplitLines(logs)) > FallbackLines
  /\ ErrorTexts(SplitLines(logs)) = {}
  /\ Len(error_logs) > FallbackLines

\* C5: whenever characters of the extracted evidence are cut on the way into
\* the prompt, the interpolated evidence ends with the truncation marker.
C5_CutIsMarked ==
  (tool = "healer" /\ pc = "analyzed" /\ Len(limited_logs) < Len(evidence))
    => EndsWith(limited_logs, TruncationMarker)

\* the index of the first keyword line at or after index `from`
RECURSIVE NextMatch(_, _, _)
NextMatch(lines, errs, from) ==
  IF from >= Len(lines) \/ lines[from + 1] \in errs THEN from
  ELSE NextMatch(lines, errs, from + 1)

\* C19: a keyword line at index i that no earlier block covers opens a block
\* of 8 lines of context before it and 12 after it: the block is the lines
\* max(0, i-8) through min(n-1, i+12) of the n-line log.
C19_TwelveLinesAfter ==
  Extracted =>
    LET lines == SplitLines(logs)
        errs  == ErrorTexts(lines)
    IN  \A k \in 1..Len(error_blocks) :
          LET covered == IF k = 1 THEN 0 ELSE error_blocks[k - 1].end
              i       == NextMatch(lines, errs, covered)
          IN  /\ error_blocks[k].start = Max(0, i - ContextBefore)
              /\ error_blocks[k].end - 1 = Min(Len(lines) - 1, i + ContextAfter)

BlockLimit == 3

HeaderPrefix == <<"-","-","-"," ","E","r","r","o","r"," ","B","l","o","c","k"," ">>

\* the number of "--- Error Block N ---" header lines in a text
HeaderCount(s) ==
  LET rendered == SplitLines(s)
  IN  Cardinality({k \in 1..Len(rendered) :
                     Take(rendered[k], Len(HeaderPrefix)) = HeaderPrefix})

\* C20: the text returned by extract_error_from_logs holds at most 3 error
\* blocks, however many keyword lines the log has.
C20_AtMostThreeBlocks ==
  Extracted => HeaderCount(error_logs) <= BlockLimit

\* the index of the keyword line that opened the k-th block: the first keyword
\* line that the blocks before it do not hold
BlockOpener(lines, errs, blocks, k) ==
  NextMatch(lines, errs, IF k = 1 THEN 0 ELSE blocks[k - 1].end)

\* C21: the start indices of successive blocks are non-decreasing, a keyword
\* line opens no block only if its index lies inside a block opened earlier,
\* and every keyword line lies inside at least one emitted block.
C21_DocumentOrderAndCoverage ==
  Extracted =>
    LET lines  == SplitLines(logs)
        errs   == ErrorTexts(lines)
        blocks == error_blocks
        K      == 1..Len(blocks)
        at     == [k \in K |-> BlockOpener(lines, errs, blocks, k)]
    IN  /\ \A a, b \in K : a < b => blocks[a].start <= blocks[b].start
        /\ \A i \in 0..(Len(lines) - 1) :
             lines[i + 1] \in errs =>
               /\ (\A k \in K : at[k] # i) =>
                    \E k \in K : /\ at[k] < i
                                 /\ blocks[k].start <= i
                                 /\ i < blocks[k].end
               /\ \E k \in K : blocks[k].start <= i /\ i < blocks[k].end

\* three blocks, each followed by two keyword lines that open none
C21_Witness ==
  /\ Extracted
  /\ Len(error_blocks) = 3
  /\ LET lines == SplitLines(logs)
     IN  /\ Cardinality({i \in 1..Len(lines) : lines[i] \in ErrorTexts(lines)}) = 9
         /\ error_blocks[2].start < error_blocks[1].end

\* the header lines of a rendered text, in order
HeaderLines(s) ==
  LET rendered == SplitLines(s)
      idx == {k \in 1..Len(rendered) :
                Take(rendered[k], Len(HeaderPrefix)) = HeaderPrefix}
  IN  [j \in 1..Cardinality(idx) |->
         rendered[CHOOSE p \in idx : Cardinality({q \in idx : q < p}) = j - 1]]

\* C27: the header of the k-th emitted error block reads "--- Error Block k
\* ---": the numbers start at 1 and go up by 1 per block.
C27_HeadersNumberedConsecutively ==
  Extracted =>
    LET headers == HeaderLines(evidence)
    IN  /\ Len(error_blocks) > 0 => Len(headers) = Len(error_blocks)
        /\ \A k \in 1..Len(headers) : headers[k] = BlockHeader(k)

-----------------------------------------------------------------------------
(* k8s_debugger.py: _remove_repeated_suffix *)

\* a loop that stops one split early: range(length // 3, length // 2)
RECURSIVE TrySplits_HalfExcluded(_, _)
TrySplits_HalfExcluded(s, split) ==
  IF split >= Len(s) \div 2 THEN s
  ELSE LET first_part  == RStrip(Take(s, split))
           second_part == Strip(Drop(s, split))
       IN  IF second_part # << >> /\ EndsWith(first_part, second_part)
           THEN first_part
           ELSE TrySplits_HalfExcluded(s, split + 1)

\* the for loop over range(length // 3, length // 2 + 1), from `split` on
RECURSIVE TrySplits(_, _)
TrySplits(s, split) ==
  IF split > Len(s) \div 2 THEN s
  ELSE LET first_part  == RStrip(Take(s, split))
           second_part == Strip(Drop(s, split))
       IN  IF second_part # << >> /\ EndsWith(first_part, second_part)
           THEN first_part
           ELSE TrySplits(s, split + 1)

remove_repeated_suffix(s) == TrySplits(s, Len(s) \div 3)

MaxTextLen == 6

TextAlphabet == {"a", "b", " "}

TextInputs == UNION {[1..n -> TextAlphabet] : n \in 0..MaxTextLen}

K8sInit ==
  /\ tool = "k8s"
  /\ pc = "responded"
  /\ text \in TextInputs
  /\ deduped = << >>
  /\ deduped_again = << >>
  /\ HealerIdle
  /\ ResponseIdle
  /\ RunIdle

\* analyze_pod_failure returns _remove_repeated_suffix(response)
RemoveRepeatedSuffix ==
  /\ tool = "k8s"
  /\ pc = "responded"
  /\ deduped' = remove_repeated_suffix(text)
  /\ pc' = "deduped"
  /\ UNCHANGED <<tool, text, deduped_again, healerVars, responseVars, runVars>>

\* the function applied to its own result
RemoveRepeatedSuffixAgain ==
  /\ tool = "k8s"
  /\ pc = "deduped"
  /\ deduped_again' = remove_repeated_suffix(deduped)
  /\ pc' = "deduped_again"
  /\ UNCHANGED <<tool, text, deduped, healerVars, responseVars, runVars>>

K8sNext == RemoveRepeatedSuffix \/ RemoveRepeatedSuffixAgain

SpecK8s == K8sInit /\ [][K8sNext]_vars

\* C6: _remove_repeated_suffix is idempotent: applying it to its own result
\* changes nothing.
C6_Idempotent ==
  (tool = "k8s" /\ pc = "deduped_again") => deduped_again = deduped

\* the split points at which the trimmed remainder is non-empty and ends the
\* right-trimmed first part
RepeatingSplits(s) ==
  {k \in (Len(s) \div 3)..(Len(s) \div 2) :
     /\ Strip(Drop(s, k)) # << >>
     /\ EndsWith(RStrip(Take(s, k)), Strip(Drop(s, k)))}

\* C22: _remove_repeated_suffix(text) is the right-trimmed first part at the
\* smallest split point k in [len(text)//3, len(text)//2] whose trimmed
\* remainder text[k:] is non-empty and a suffix of that first part, and text
\* itself if there is no such k; the result is a prefix of text.
C22_EqualsReference ==
  (tool = "k8s" /\ pc \in {"deduped", "deduped_again"}) =>
    LET ks == RepeatingSplits(text)
    IN  /\ deduped = IF ks = {} THEN text
                     ELSE RStrip(Take(text, CHOOSE k \in ks : \A j \in ks : k <= j))
        /\ Len(deduped) <= Len(text)
        /\ deduped = Take(text, Len(deduped))

\* "ab ab": the repeat after the blank is dropped together with the blank
C22_Witness ==
  /\ tool = "k8s"
  /\ pc = "deduped"
  /\ text = <<"a", "b", " ", "a", "b">>
  /\ deduped = <<"a", "b">>

-----------------------------------------------------------------------------
(* terraform_generator.py: parse_terraform_files *)

FileMarker == <<"#","#","#">>

FilenameExtensions == { <<".","t","f">>, <<".","t","f","v","a","r","s">>, <<".","h","c","l">> }

CommonFilenames == <<
  <<"m","a","i","n",".","t","f">>,
  <<"v","a","r","i","a","b","l","e","s",".","t","f">>,
  <<"o","u","t","p","u","t","s",".","t","f">>,
  <<"t","e","r","r","a","f","o","r","m",".","t","f","v","a","r","s",".","e","x","a","m","p","l","e">> >>

MainTf == <<"m","a","i","n",".","t","f">>

\* any(ext in section.lower() for ext in ['.tf', '.tfvars', '.hcl'])
IsFilenameSection(section) ==
  \E ext \in FilenameExtensions : Contains(Lower(section), ext)

\* `if current_filename and current_content:` and the store it guards
SaveCurrent(st) ==
  IF st.has_filename /\ st.current_filename # << >> /\ st.current_content # << >>
  THEN Put(st.files, st.current_filename, Strip(JoinLines(st.current_content)))
  ELSE st.files

\* one pass of `for section in sections:`; st holds files, current_filename
\* (has_filename is FALSE while it is None) and current_content
SectionStep(st, raw) ==
  LET section == Strip(raw)
  IN  IF section = << >> THEN st
      ELSE IF IsFilenameSection(section)
           THEN LET lines == SplitLines(section)
                IN  [ files            |-> SaveCurrent(st),
                      has_filename     |-> TRUE,
                      current_filename |-> Strip(lines[1]),
                      current_content  |-> Tail(lines) ]
           ELSE [st EXCEPT !.current_content = Append(@, section)]

RECURSIVE SectionLoop(_, _, _)
SectionLoop(st, sections, k) ==
  IF k > Len(sections) THEN st
  ELSE SectionLoop(SectionStep(st, sections[k]), sections, k + 1)

\* lines 169-198: the dict `files` after the marker pass
MarkerParse(response) ==
  SaveCurrent(SectionLoop([ files            |-> << >>,
                            has_filename     |-> FALSE,
                            current_filename |-> << >>,
                            current_content  |-> << >> ],
                          SplitOn(response, FileMarker), 1))

\* lines 209-214: `end` after the next_file candidates from the k-th on
RECURSIVE NextFileEnd(_, _, _, _, _)
NextFileEnd(lowered, filename, start, end, k) ==
  IF k > Len(CommonFilenames) THEN end
  ELSE LET next_file == CommonFilenames[k]
           next_pos  == Find(lowered, next_file, start + Len(filename))
       IN  NextFileEnd(lowered, filename, start,
                       IF next_file # filename /\ next_pos > start /\ next_pos < end
                       THEN next_pos ELSE end,
                       k + 1)

\* lines 206-221: the content stored for a common filename found in the response
CommonFileContent(response, filename) ==
  LET lowered == Lower(response)
      start   == Find(lowered, filename, 0)
      end     == NextFileEnd(lowered, filename, start, Len(response), 1)
      content == Strip(RemoveFirst(SubSeq(response, start + 1, end), filename))
  IN  Strip(RemoveAll(RemoveAll(RemoveAll(content, <<Backquote,Backquote,Backquote,"h","c","l">>),
                                <<Backquote,Backquote,Backquote,"t","e","r","r","a","f","o","r","m">>),
                      <<Backquote,Backquote,Backquote>>))

\* lines 203-221: the loop over the common filenames, from the k-th on
RECURSIVE CommonFilesLoop(_, _, _)
CommonFilesLoop(response, found, k) ==
  IF k > Len(CommonFilenames) THEN found
  ELSE CommonFilesLoop(response,
         IF Contains(Lower(response), CommonFilenames[k])
         THEN Put(found, CommonFilenames[k],
                  CommonFileContent(response, CommonFilenames[k]))
         ELSE found,
         k + 1)

\* lines 200-221: `if not files:` look for common filenames
CommonFilesFallback(response, found) ==
  IF DOMAIN found = {} THEN CommonFilesLoop(response, found, 1) ELSE found

\* the last fallback with its strip() forgotten
MainTfFallback_Unstripped(response, found) ==
  IF DOMAIN found = {} THEN Put(found, MainTf, response) ELSE found

\* the last fallback forgotten altogether
MainTfFallback_Missing(response, found) == found

\* lines 223-225: `if not files:` put everything in main.tf
MainTfFallback(response, found) ==
  IF DOMAIN found = {} THEN Put(found, MainTf, Strip(response)) ELSE found

parse_terraform_files(response) ==
  MainTfFallback(response, CommonFilesFallback(response, MarkerParse(response)))

-----------------------------------------------------------------------------
(* Inputs of the terraform run: the text ask_ollama returned *)

MaxTokens == 3

ErrorResponse == <<"E","r","r","o","r",":"," ","A","I"," ","r","e","t","u","r","n","e","d"," ","s","t","a","t","u","s"," ","c","o","d","e"," ","5","0","0">>

ResponseTokens == {
  FileMarker,
  MainTf,
  <<"v","a","r","i","a","b","l","e","s",".","t","f">>,
  <<NL>>,
  <<" ">>,
  <<"x">>,
  <<Backquote,Backquote,Backquote,"h","c","l">>,
  ErrorResponse }

RECURSIVE Concat(_)
Concat(parts) ==
  IF parts = << >> THEN << >> ELSE Head(parts) \o Concat(Tail(parts))

\* free-form responses: up to MaxTokens tokens in any order
FreeResponses ==
  {Concat(ts) : ts \in UNION {[1..n -> ResponseTokens] : n \in 0..MaxTokens}}

BlockFilenames == { MainTf, <<"o","u","t","p","u","t","s",".","t","f">>, <<"p","r","o","d",".","t","f","v","a","r","s">> }

BlockTexts == {
  <<"x">>,
  <<"a"," ","="," ","1","\n","b"," ","="," ","2">>,
  <<" ","y"," ">>,
  <<"#"," ","s","e","e"," ","x",".","t","f">>,
  <<"k"," ","="," ","\"","v","\"">>,
  << >> }

\* "### A ###\ntextA\n### B ###\ntextB"
BlockResponse(A, textA, B, textB) ==
  FileMarker \o <<" ">> \o A \o <<" ">> \o FileMarker \o <<NL>> \o textA \o <<NL>>
    \o FileMarker \o <<" ">> \o B \o <<" ">> \o FileMarker \o <<NL>> \o textB

BlockResponses ==
  {BlockResponse(A, tA, B, tB) :
     A \in BlockFilenames, tA \in BlockTexts, B \in BlockFilenames, tB \in BlockTexts}

TerraformInit ==
  /\ tool = "terraform"
  /\ pc = "generated"
  /\ ai_response \in FreeResponses \cup BlockResponses
  /\ files = << >>
  /\ parsed = << >>
  /\ HealerIdle
  /\ K8sIdle
  /\ RunIdle

\* generate_terraform: files = self.parse_terraform_files(ai_response)
ParseTerraformFiles ==
  /\ tool = "terraform"
  /\ pc = "generated"
  /\ files' = parse_terraform_files(ai_response)
  /\ pc' = "parsed"
  /\ UNCHANGED <<tool, ai_response, parsed, healerVars, k8sVars, runVars>>

\* main, lines 411-413: `if not files:` report the failure and exit(1)
CheckFiles ==
  /\ tool = "terraform"
  /\ pc = "parsed"
  /\ pc' = IF DOMAIN files = {} THEN "exit_failed" ELSE "saving"
  /\ UNCHANGED <<tool, ai_response, files, parsed, healerVars, k8sVars, runVars>>

TerraformNext == ParseTerraformFiles \/ CheckFiles

SpecTerraform == TerraformInit /\ [][TerraformNext]_vars

Parsed == tool = "terraform" /\ pc \in {"parsed", "saving", "exit_failed"}

HasExtension(response) ==
  \E ext \in FilenameExtensions : Contains(Lower(response), ext)

\* C7: "### A ###\ntextA\n### B ###\ntextB" with distinct filenames A, B and
\* texts without the ### delimiter parses to exactly {A: textA, B: textB},
\* texts compared modulo surrounding whitespace.
C7_BlockRoundTrip ==
  Parsed =>
    \A A \in BlockFilenames, B \in BlockFilenames, tA \in BlockTexts, tB \in BlockTexts :
      (A # B /\ ai_response = BlockResponse(A, tA, B, tB))
        => files = Put(Put(<< >>, A, Strip(tA)), B, Strip(tB))

\* C8 as stated: a response without any ### marker yields exactly one entry,
\* main.tf, holding the entire response trimmed.
C8_NoMarkerDefaultsToMainTf ==
  (Parsed /\ ~Contains(ai_response, FileMarker))
    => files = Put(<< >>, MainTf, Strip(ai_response))

\* C8 amended: a response without any ### marker and without any of the
\* substrings .tf, .tfvars, .hcl (in any letter case) yields exactly one
\* entry, main.tf, holding the entire response trimmed.
C8_NoMarkerNoExtensionDefaultsToMainTf ==
  (Parsed /\ ~Contains(ai_response, FileMarker) /\ ~HasExtension(ai_response))
    => files = Put(<< >>, MainTf, Strip(ai_response))

C8_Witness ==
  /\ Parsed
  /\ ~Contains(ai_response, FileMarker)
  /\ ~HasExtension(ai_response)
  /\ Strip(ai_response) # << >>
  /\ Strip(ai_response) # ai_response
  /\ DOMAIN files = {MainTf}

\* C9: parse_terraform_files returns a mapping with at least one entry for
\* every input string, the empty string and an "Error: ..." string included,
\* so main never takes its "Failed to generate Terraform code" exit.
C9_AlwaysAFile ==
  /\ Parsed => DOMAIN files # {}
  /\ pc # "exit_failed"

C9_Witness ==
  /\ tool = "terraform"
  /\ pc = "saving"
  /\ ai_response = ErrorResponse
  /\ DOMAIN files = {MainTf}

-----------------------------------------------------------------------------
(* docker_scanner.py: generate_summary, the parse of the structured response *)

Colon == ":"

\* the value half of line.rsplit(':', 1): a split at the last colon
LineValue_LastColon(line) ==
  LET colons == {p \in 1..Len(line) : line[p] = Colon}
  IN  Strip(Drop(line, CHOOSE p \in colons : \A q \in colons : q <= p))

\* key, value = line.split(':', 1); key.strip()
LineKey(line) == Strip(Take(line, Find(line, <<Colon>>, 0)))

\* key, value = line.split(':', 1); value.strip()
LineValue(line) == Strip(Drop(line, Find(line, <<Colon>>, 0) + 1))

\* lines 235-238: `for line in lines:`, from the k-th line on
RECURSIVE ParseLines(_, _, _)
ParseLines(lines, k, acc) ==
  IF k > Len(lines) THEN acc
  ELSE ParseLines(lines, k + 1,
         IF Contains(lines[k], <<Colon>>)
         THEN Put(acc, LineKey(lines[k]), LineValue(lines[k]))
         ELSE acc)

\* lines 233-238
ParseSummary(response) == ParseLines(SplitLines(Strip(response)), 1, << >>)

MaxSummaryLines == 3

PostureLine == <<"S","E","C","U","R","I","T","Y","_","P","O","S","T","U","R","E",":"," ","c","o","n","c","e","r","n","i","n","g">>
PackagesLine == <<"V","U","L","N","E","R","A","B","L","E","_","P","A","C","K","A","G","E","S",":"," ","o","p","e","n","s","s","l",","," ","c","u","r","l">>
PostureKey == <<"S","E","C","U","R","I","T","Y","_","P","O","S","T","U","R","E">>
PackagesKey == <<"V","U","L","N","E","R","A","B","L","E","_","P","A","C","K","A","G","E","S">>

SummaryLines == {
  PostureLine,
  PackagesLine,
  <<"S","E","C","U","R","I","T","Y","_","P","O","S","T","U","R","E",":"," ","g","o","o","d">>,
  <<" ","R","e","m","e","d","i","a","t","i","o","n"," ",":"," ","p","a","t","c","h",":"," ","n","o","w"," ">>,
  <<"n","o"," ","c","o","l","o","n"," ","h","e","r","e">>,
  <<"V","A","R","I","A","N","T","S","_","T","O","_","T","E","S","T",":"," ","[","a","l","p","i","n","e",","," ","s","l","i","m","]">>,
  << >> }

\* the lines the model answered, each ended by a newline or the last one not
SummaryResponses ==
  UNION { { JoinLines(ls), JoinLines(ls) \o <<NL>> } :
            ls \in UNION {[1..n -> SummaryLines] : n \in 0..MaxSummaryLines} }

ScannerInit ==
  /\ tool = "scanner"
  /\ pc = "answered"
  /\ ai_response \in SummaryResponses
  /\ files = << >>
  /\ parsed = << >>
  /\ HealerIdle
  /\ K8sIdle
  /\ RunIdle

\* generate_summary, lines 232-238
ParseStructuredResponse ==
  /\ tool = "scanner"
  /\ pc = "answered"
  /\ parsed' = ParseSummary(ai_response)
  /\ pc' = "parsed"
  /\ UNCHANGED <<tool, ai_response, files, healerVars, k8sVars, runVars>>

\* generate_summary, line 266: the summary is returned
ReturnSummary ==
  /\ tool = "scanner"
  /\ pc = "parsed"
  /\ pc' = "summarised"
  /\ UNCHANGED <<tool, ai_response, files, parsed, healerVars, k8sVars, runVars>>

ScannerNext == ParseStructuredResponse \/ ReturnSummary

SpecScanner == ScannerInit /\ [][ScannerNext]_vars

SummaryParsed == tool = "scanner" /\ pc \in {"parsed", "summarised"}

\* the lines of the trimmed response that hold a colon, by position
ColonLines(response) ==
  LET lines == SplitLines(Strip(response))
  IN  {i \in 1..Len(lines) : \E p \in 1..Len(lines[i]) : lines[i][p] = Colon}

\* the text left / right of the first colon of a line, trimmed
LeftOfColon(line) ==
  Strip(SubSeq(line, 1, (CHOOSE p \in 1..Len(line) :
       line[p] = Colon /\ \A q \in 1..(p - 1) : line[q] # Colon) - 1))
RightOfColon(line) ==
  Strip(SubSeq(line, (CHOOSE p \in 1..Len(line) :
       line[p] = Colon /\ \A q \in 1..(p - 1) : line[q] # Colon) + 1, Len(line)))

ExampleResponse == PostureLine \o <<NL>> \o PackagesLine \o <<NL>>

\* C10 as stated: each line "KEY: value" yields an entry whose key is the
\* trimmed, lower-cased left-hand side and whose value is the trimmed
\* right-hand side; the example parses to lower-case keys.
C10_KeysLowerCased ==
  SummaryParsed =>
    LET lines == SplitLines(Strip(ai_response))
    IN  /\ \A i \in ColonLines(ai_response) :
              Lower(LeftOfColon(lines[i])) \in DOMAIN parsed
        /\ ai_response = ExampleResponse =>
              parsed = Put(Put(<< >>, Lower(PostureKey), <<"c","o","n","c","e","r","n","i","n","g">>),
                           Lower(PackagesKey), <<"o","p","e","n","s","s","l",","," ","c","u","r","l">>)

\* C10 amended: each line holding a colon yields an entry whose key is the
\* trimmed left-hand side, letter case kept, and whose value is the trimmed
\* right-hand side (of the last such line, when a key repeats); there are no
\* other entries; the example parses to the upper-case keys as written.
C10_KeysTrimmedCaseKept ==
  SummaryParsed =>
    LET lines == SplitLines(Strip(ai_response))
        cl    == ColonLines(ai_response)
    IN  /\ DOMAIN parsed = {LeftOfColon(lines[i]) : i \in cl}
        /\ \A i \in cl :
              (\A j \in cl : j > i => LeftOfColon(lines[j]) # LeftOfColon(lines[i]))
                => parsed[LeftOfColon(lines[i])] = RightOfColon(lines[i])
        /\ ai_response = ExampleResponse =>
              parsed = Put(Put(<< >>, PostureKey, <<"c","o","n","c","e","r","n","i","n","g">>),
                           PackagesKey, <<"o","p","e","n","s","s","l",","," ","c","u","r","l">>)

C10_Witness ==
  /\ SummaryParsed
  /\ ai_response = ExampleResponse
  /\ DOMAIN parsed = {PostureKey, PackagesKey}
  /\ Lower(PostureKey) \notin DOMAIN parsed

-----------------------------------------------------------------------------
(* ask_ollama: the call to the generation endpoint, the same code in the   *)
(* five tools apart from the timeout                                       *)

OllamaTools == {"scanner", "k8s", "aws", "healer", "terraform"}

\* the timeout= argument of requests.post, in seconds
OllamaTimeout(t) ==
  CASE t = "scanner"   -> 60
    [] t = "k8s"       -> 180
    [] t = "aws"       -> 120
    [] t = "healer"    -> 120
    [] t = "terraform" -> 300

StatusErrorPrefix == <<"E","r","r","o","r",":"," ","A","I"," ","r","e","t","u","r","n","e","d"," ","s","t","a","t","u","s"," ","c","o","d","e"," ">>
CommunicationErrorPrefix == <<"E","r","r","o","r"," ","c","o","m","m","u","n","i","c","a","t","i","n","g"," ","w","i","t","h"," ","A","I",":"," ">>

\* an expression either returns a value or raises an exception
Returned(v) == [raised |-> FALSE, value |-> v]
Raised(e) == [raised |-> TRUE, value |-> e]

\* the exception classes that derive from requests.exceptions.RequestException
RequestExceptions == {"ConnectionError", "Timeout", "JSONDecodeError"}

\* str(e) of an exception
ExceptionText(e) ==
  CASE e = "ConnectionError" -> <<"r","e","f","u","s","e","d">>
    [] e = "Timeout"         -> <<"t","i","m","e","d"," ","o","u","t">>
    [] OTHER                 -> <<"b","a","d"," ","j","s","o","n">>

\* requests.post(url, json=..., timeout=timeout) against the endpoint `server`
requests_post(timeout, server) ==
  IF ~server.reachable THEN Raised("ConnectionError")
  ELSE IF server.latency > timeout THEN Raised("Timeout")
  ELSE Returned([status_code |-> server.status_code, body |-> server.body])

\* response.json(): the body decoded, or the decoding error of the installed
\* requests (requests.exceptions.JSONDecodeError from 2.27 on, a plain
\* ValueError before)
response_json(body, decode_error) ==
  IF body.kind = "not_json" THEN Raised(decode_error) ELSE Returned(body)

\* <decoded body>.get("response", "")
get_response(data) ==
  CASE data.kind = "object"    -> Returned(data.response)
    [] data.kind = "no_key"    -> Returned(<< >>)
    [] OTHER                   -> Raised("AttributeError")

\* the except clause without the handler
ExceptRequestException_Absent(e) == Raised(e)

\* the except clause of ask_ollama
ExceptRequestException(e) ==
  IF e \in RequestExceptions
  THEN Returned(CommunicationErrorPrefix \o ExceptionText(e))
  ELSE Raised(e)

ask_ollama(timeout, server) ==
  LET response == requests_post(timeout, server)
  IN  IF response.raised THEN ExceptRequestException(response.value)
      ELSE IF response.value.status_code = 200
      THEN LET data == response_json(response.value.body, server.decode_error)
           IN  IF data.raised THEN ExceptRequestException(data.value)
               ELSE get_response(data.value)
      ELSE Returned(StatusErrorPrefix \o IntToStr(response.value.status_code))

(* Inputs of the ask_ollama run *)

StatusCodes == {200, 201, 204, 301, 400, 404, 500, 503}

Latencies == {1, 61, 121, 181, 301}

GeneratedTexts == {<< >>, <<"o","k">>, <<"E","r","r","o","r">>}

Bodies ==
  {[kind |-> "object", response |-> t] : t \in GeneratedTexts}
    \cup {[kind |-> k, response |-> << >>] : k \in {"no_key", "array", "not_json"}}

Servers ==
  [reachable : BOOLEAN, latency : Latencies, status_code : StatusCodes,
   body : Bodies, decode_error : {"JSONDecodeError", "ValueError"}]

OllamaInit ==
  /\ tool \in OllamaTools
  /\ pc = "asking"
  /\ env \in Servers
  /\ locals = << >>
  /\ calls = << >>
  /\ exit_status = "running"
  /\ HealerIdle
  /\ K8sIdle
  /\ ResponseIdle

AskOllama ==
  /\ tool \in OllamaTools
  /\ pc = "asking"
  /\ locals' = ask_ollama(OllamaTimeout(tool), env)
  /\ pc' = "asked"
  /\ UNCHANGED <<tool, env, calls, exit_status, healerVars, k8sVars, responseVars>>

OllamaNext == AskOllama

SpecOllama == OllamaInit /\ [][OllamaNext]_vars

-----------------------------------------------------------------------------
(* Properties of ask_ollama *)

Asked == tool \in OllamaTools /\ pc = "asked" /\ env \in Servers

RequestFailed == ~env.reachable \/ env.latency > OllamaTimeout(tool)

ErrorWord == <<"E","r","r","o","r">>
ErrorColon == <<"E","r","r","o","r",":">>

\* C11: ask_ollama never raises towards its caller in the two cases the
\* contract names: for every HTTP status outside 200..299 it returns a string
\* that begins with "Error:", and for every request failure (timeout,
\* connection error) it returns a string that begins with "Error".
C11_NoFaultPropagated ==
  Asked =>
    /\ RequestFailed =>
         /\ ~locals.raised
         /\ Take(locals.value, Len(ErrorWord)) = ErrorWord
    /\ (~RequestFailed /\ env.status_code \notin 200..299) =>
         /\ ~locals.raised
         /\ Take(locals.value, Len(ErrorColon)) = ErrorColon

\* a 503 answer that arrived in time is turned into its status string
C11_Witness ==
  /\ Asked
  /\ ~RequestFailed
  /\ env.status_code = 503
  /\ locals = Returned(StatusErrorPrefix \o <<"5","0","3">>)

-----------------------------------------------------------------------------
(* The command-line entry points: pre-flight checks, then the scan, fetch  *)
(* and generation calls of main, then the report                           *)

EntryPoints == {"scanner", "compare", "k8s", "aws", "healer", "terraform"}

Check(name, prerequisite) == [name |-> name, prerequisite |-> prerequisite]

\* the pre-flight checks of main, in the order main makes them; a check that
\* fails prints its message and calls sys.exit(1)
PreflightChecks(t) ==
  CASE t = "scanner" ->
         <<Check("check_trivy_installed", "trivy"),
           Check("check_ollama_running", "ollama")>>
    [] t = "compare" -> << >>
    [] t = "k8s" ->
         <<Check("check_kubectl_installed", "kubectl"),
           Check("check_cluster_accessible", "cluster"),
           Check("check_ollama_running", "ollama")>>
    [] t = "aws" ->
         <<Check("check_aws_credentials", "aws_credentials"),
           Check("check_ollama_running", "ollama")>>
    [] t = "healer" ->
         <<Check("github_token", "token_given"),
           Check("check_github_token", "token_valid"),
           Check("check_ollama_running", "ollama")>>
    [] t = "terraform" ->
         <<Check("check_ollama_running", "ollama")>>

\* a call of main: the programs it executes without catching
\* FileNotFoundError, and what main does with its empty or None result
\* ("exit": sys.exit(1), "return": return before the report, "continue")
Call(name, needs, on_failure) ==
  [name |-> name, needs |-> needs, on_failure |-> on_failure]

ReportCalls ==
  {"print_report", "print_comparison", "print_pod_report", "print_cost_report",
   "print_analysis_report", "print_summary"}

\* the scan, fetch and generation calls of main up to its report, in order
CoreCalls(t) ==
  CASE t = "scanner" ->
         <<Call("scan_image", {"docker", "trivy"}, "exit"),
           Call("generate_summary", {}, "continue"),
           Call("print_report", {}, "continue")>>
    [] t = "compare" ->
         <<Call("quick_scan", {"docker", "trivy"}, "return"),
           Call("print_comparison", {}, "continue")>>
    [] t = "k8s" ->
         <<Call("get_pods", {"kubectl"}, "exit"),
           Call("get_pod_logs", {"kubectl"}, "continue"),
           Call("get_pod_events", {"kubectl"}, "continue"),
           Call("analyze_pod_failure", {}, "continue"),
           Call("print_pod_report", {}, "continue")>>
    [] t = "aws" ->
         <<Call("get_cost_and_usage", {}, "exit"),
           Call("get_resource_counts", {}, "continue"),
           Call("analyze_costs", {}, "continue"),
           Call("print_cost_report", {}, "continue")>>
    [] t = "healer" ->
         <<Call("get_workflow_runs", {}, "return"),
           Call("get_workflow_jobs", {}, "return"),
           Call("get_job_logs", {}, "return"),
           Call("get_workflow_file_content", {}, "continue"),
           Call("analyze_failure", {}, "continue"),
           Call("print_analysis_report", {}, "continue")>>
    [] t = "terraform" ->
         <<Call("generate_terraform", {}, "continue"),
           Call("save_files", {}, "continue"),
           Call("print_summary", {}, "continue")>>

Range(seq) == {seq[k] : k \in 1..Len(seq)}

CoreCallNames(t) == {c.name : c \in Range(CoreCalls(t))}

\* the calls whose upstream (scan tool, cluster, AWS, GitHub, endpoint) can fail
UpstreamCalls(t) == CoreCallNames(t) \ (ReportCalls \cup {"save_files"})

\* the external tools, credentials and endpoints the entry point relies on
Required(t) ==
  {c.prerequisite : c \in Range(PreflightChecks(t))}
    \cup UNION {c.needs : c \in Range(CoreCalls(t))}

\* a token is valid only if one is given, a cluster reachable only with kubectl
Consistent(available) ==
  /\ "token_valid" \in available => "token_given" \in available
  /\ "cluster" \in available => "kubectl" \in available

(* Inputs of the entry-point run *)

Environments(t) ==
  {[available |-> a, failing |-> f] :
     a \in {x \in SUBSET Required(t) : Consistent(x)},
     f \in SUBSET UpstreamCalls(t)}

MainInit ==
  /\ tool \in EntryPoints
  /\ pc = "preflight"
  /\ env \in Environments(tool)
  /\ locals = [check |-> 1, call |-> 1]
  /\ calls = << >>
  /\ exit_status = "running"
  /\ HealerIdle
  /\ K8sIdle
  /\ ResponseIdle

\* the next pre-flight check of main; after the last one main goes on
PreflightCheck ==
  /\ tool \in EntryPoints
  /\ pc = "preflight"
  /\ LET checks == PreflightChecks(tool)
     IN  IF locals.check > Len(checks)
         THEN /\ pc' = "core"
              /\ UNCHANGED <<locals, calls, exit_status>>
         ELSE LET check == checks[locals.check]
              IN  IF check.prerequisite \in env.available
                  THEN /\ calls' = Append(calls, check.name)
                       /\ locals' = [locals EXCEPT !.check = @ + 1]
                       /\ UNCHANGED <<pc, exit_status>>
                  ELSE /\ calls' = calls \o <<check.name, "report_missing">>
                       /\ exit_status' = "1"
                       /\ pc' = "exited"
                       /\ UNCHANGED locals
  /\ UNCHANGED <<tool, env, healerVars, k8sVars, responseVars>>

\* the next scan, fetch or generation call of main and main's test of its result
CoreCall ==
  /\ tool \in EntryPoints
  /\ pc = "core"
  /\ LET call == CoreCalls(tool)[locals.call]
     IN  /\ call.name \notin ReportCalls
         /\ IF ~(call.needs \subseteq env.available)
            THEN \* subprocess.run raises FileNotFoundError, nothing catches it
                 /\ calls' = calls \o <<call.name, "traceback">>
                 /\ exit_status' = "1"
                 /\ pc' = "exited"
                 /\ UNCHANGED locals
            ELSE IF call.name \in env.failing /\ call.on_failure = "exit"
            THEN /\ calls' = Append(calls, call.name)
                 /\ exit_status' = "1"
                 /\ pc' = "exited"
                 /\ UNCHANGED locals
            ELSE IF call.name \in env.failing /\ call.on_failure = "return"
            THEN /\ calls' = Append(calls, call.name)
                 /\ exit_status' = "0"
                 /\ pc' = "exited"
                 /\ UNCHANGED locals
            ELSE /\ calls' = Append(calls, call.name)
                 /\ locals' = [locals EXCEPT !.call = @ + 1]
                 /\ UNCHANGED <<pc, exit_status>>
  /\ UNCHANGED <<tool, env, healerVars, k8sVars, responseVars>>

\* the report of main, after which main returns
PrintReport ==
  /\ tool \in EntryPoints
  /\ pc = "core"
  /\ LET call == CoreCalls(tool)[locals.call]
     IN  /\ call.name \in ReportCalls
         /\ calls' = Append(calls, call.name)
  /\ exit_status' = "0"
  /\ pc' = "exited"
  /\ UNCHANGED <<tool, env, locals, healerVars, k8sVars, responseVars>>

MainNext == PreflightCheck \/ CoreCall \/ PrintReport

SpecMain == MainInit /\ [][MainNext]_vars

-----------------------------------------------------------------------------
(* Properties of the entry points *)

InMain == tool \in EntryPoints /\ pc \in {"preflight", "core", "exited"}

MissingPrerequisites == Required(tool) \ env.available

\* C12: in every entry point, when a required external tool, credential or
\* the generation endpoint is unavailable, no scan, fetch or generation call
\* is ever made, and the process ends with a non-zero status right after
\* reporting the missing prerequisite.
C12_PreflightBeforeCore ==
  (InMain /\ MissingPrerequisites # {}) =>
    /\ \A k \in 1..Len(calls) : calls[k] \notin CoreCallNames(tool)
    /\ pc = "exited" =>
         /\ exit_status = "1"
         /\ calls[Len(calls)] = "report_missing"

\* C13: once the pre-flight checks have passed, a failing upstream call (scan
\* tool, cluster, AWS, GitHub API, generation endpoint) is never fatal: the
\* run goes on to its report output and the process ends normally, with
\* status 0 and the report as the last thing it did.
C13_UpstreamFailuresNonFatal ==
  (InMain /\ MissingPrerequisites = {} /\ pc = "exited") =>
    /\ exit_status = "0"
    /\ calls[Len(calls)] \in ReportCalls

-----------------------------------------------------------------------------
(* k8s_debugger.py: main, the selection of the pods and the loop over them *)

MaxPods == 3

PodName(k) == <<"p">> \o IntToStr(k)

\* what `kubectl logs` and `kubectl describe pod` print for a pod
PodLogs(name) == <<"l","o","g"," ","o","f"," ">> \o name
PodEvents(name) == <<"e","v","e","n","t","s"," ","o","f"," ">> \o name

NoLogsAvailable == <<"N","o"," ","l","o","g","s"," ","a","v","a","i","l","a","b","l","e">>
NoEventsAvailable == <<"N","o"," ","e","v","e","n","t","s"," ","a","v","a","i","l","a","b","l","e">>

PodLogLimit == 2000
PodEventLimit == 1000

\* the fields interpolated into the prompt of analyze_pod_failure
PodPrompt(pod, pod_logs, pod_events) ==
  [name |-> pod.name,
   status |-> pod.status,
   ready |-> pod.ready,
   restarts |-> pod.restarts,
   logs |-> IF pod_logs # << >> THEN Take(pod_logs, PodLogLimit) ELSE NoLogsAvailable,
   events |-> IF pod_events # << >> THEN Take(pod_events, PodEventLimit)
              ELSE NoEventsAvailable]

\* the endpoint's answer: some text that belongs to the prompt it was given
Diagnosis(prompt) == [answer_to |-> prompt]

\* the loop walking the list from its end
PodAt_Reversed(pods, i) == pods[Len(pods) + 1 - i]

\* the pod the i-th turn of `for i, pod in enumerate(pods_to_analyze, 1)` binds
PodAt(pods, i) == pods[i]

\* [p for p in pods if keep(p)]
RECURSIVE Filter(_, _)
Filter(pods, keep) ==
  IF pods = << >> THEN << >>
  ELSE LET rest == Filter(Tail(pods), keep)
       IN  IF Head(pods) \in keep THEN <<Head(pods)>> \o rest ELSE rest

(* Inputs of the k8s_debugger run *)

\* is_healthy = status == "Running" and ready and restart_count == 0
IsHealthy(status, ready, restarts) == status = "Running" /\ ready /\ restarts = 0

\* the dict get_pods builds for one item of `kubectl get pods -o json`
PodInfo(name, status, ready, restarts) ==
  [name |-> name, status |-> status, ready |-> ready, restarts |-> restarts,
   healthy |-> IsHealthy(status, ready, restarts)]

PodInfos ==
  {PodInfo(PodName(k), c[1], c[2], c[3]) :
     k \in 1..MaxPods,
     c \in {<<"Running", TRUE, 0>>, <<"Running", TRUE, 2>>,
            <<"CrashLoopBackOff", FALSE, 3>>}}

\* the lists get_pods can return: distinct names, in any order
PodLists ==
  UNION {{p \in [1..n -> PodInfos] :
            \A a, b \in 1..n : a # b => p[a].name # p[b].name} :
         n \in 0..MaxPods}

PodLoopInit ==
  /\ tool = "k8s"
  /\ pc = "selecting"
  /\ env \in [pods : PodLists,
              args_pod : {<< >>} \cup {PodName(k) : k \in 1..MaxPods},
              logs_fail : BOOLEAN]
  /\ locals = [pods_to_analyze |-> << >>, i |-> 0, logs |-> << >>,
               events |-> << >>, diagnosis |-> << >>]
  /\ calls = << >>
  /\ exit_status = "running"
  /\ HealerIdle
  /\ K8sIdle
  /\ ResponseIdle

\* main from get_pods to the head of the loop
SelectPods ==
  /\ tool = "k8s"
  /\ pc = "selecting"
  /\ LET pods == env.pods
         wanted ==
           IF env.args_pod # << >>
           THEN Filter(pods, {p \in Range(pods) : p.name = env.args_pod})
           ELSE Filter(pods, {p \in Range(pods) : ~p.healthy})
     IN  IF pods = << >> \/ (env.args_pod # << >> /\ wanted = << >>)
         THEN /\ exit_status' = "1"
              /\ pc' = "exited"
              /\ UNCHANGED locals
         ELSE IF wanted = << >>
         THEN /\ exit_status' = "0"
              /\ pc' = "exited"
              /\ UNCHANGED locals
         ELSE /\ locals' = [locals EXCEPT !.pods_to_analyze = wanted, !.i = 1]
              /\ pc' = "logs"
              /\ UNCHANGED exit_status
  /\ UNCHANGED <<tool, env, calls, healerVars, k8sVars, responseVars>>

\* logs = debugger.get_pod_logs(pod['name'], args.namespace)
FetchLogs ==
  /\ tool = "k8s"
  /\ pc = "logs"
  /\ LET pod == PodAt(locals.pods_to_analyze, locals.i)
     IN  /\ locals' = [locals EXCEPT !.logs = IF env.logs_fail THEN << >>
                                              ELSE PodLogs(pod.name)]
         /\ calls' = Append(calls, [step |-> "get_pod_logs", pod |-> pod.name])
  /\ pc' = "events"
  /\ UNCHANGED <<tool, env, exit_status, healerVars, k8sVars, responseVars>>

\* events = debugger.get_pod_events(pod['name'], args.namespace)
FetchEvents ==
  /\ tool = "k8s"
  /\ pc = "events"
  /\ LET pod == PodAt(locals.pods_to_analyze, locals.i)
     IN  /\ locals' = [locals EXCEPT !.events = PodEvents(pod.name)]
         /\ calls' = Append(calls, [step |-> "get_pod_events", pod |-> pod.name])
  /\ pc' = "diagnosis"
  /\ UNCHANGED <<tool, env, exit_status, healerVars, k8sVars, responseVars>>

\* diagnosis = debugger.analyze_pod_failure(pod, logs, events)
GenerateDiagnosis ==
  /\ tool = "k8s"
  /\ pc = "diagnosis"
  /\ LET pod == PodAt(locals.pods_to_analyze, locals.i)
     IN  /\ locals' = [locals EXCEPT !.diagnosis =
                         Diagnosis(PodPrompt(pod, locals.logs, locals.events))]
         /\ calls' = Append(calls, [step |-> "analyze_pod_failure", pod |-> pod.name])
  /\ pc' = "report"
  /\ UNCHANGED <<tool, env, exit_status, healerVars, k8sVars, responseVars>>

\* debugger.print_pod_report(pod, diagnosis), then the next turn of the loop
\* or, after the last pod, the end of main
PrintPodReport ==
  /\ tool = "k8s"
  /\ pc = "report"
  /\ LET pod == PodAt(locals.pods_to_analyze, locals.i)
     IN  calls' = Append(calls, [step |-> "print_pod_report", pod |-> pod.name,
                                 diagnosis |-> locals.diagnosis])
  /\ IF locals.i < Len(locals.pods_to_analyze)
     THEN /\ locals' = [locals EXCEPT !.i = @ + 1]
          /\ pc' = "logs"
          /\ UNCHANGED exit_status
     ELSE /\ exit_status' = "0"
          /\ pc' = "exited"
          /\ UNCHANGED locals
  /\ UNCHANGED <<tool, env, healerVars, k8sVars, responseVars>>

PodLoopNext ==
  SelectPods \/ FetchLogs \/ FetchEvents \/ GenerateDiagnosis \/ PrintPodReport

SpecPodLoop == PodLoopInit /\ [][PodLoopNext]_vars

-----------------------------------------------------------------------------
(* Properties of the pod loop *)

InPodLoop == tool = "k8s" /\ pc \in {"logs", "events", "diagnosis", "report", "exited"}

PodSteps == <<"get_pod_logs", "get_pod_events", "analyze_pod_failure", "print_pod_report">>

\* C14: the selected pods are analysed one at a time in list order: the k-th
\* step made overall is step ((k-1) mod 4)+1 of fetch-logs, fetch-events,
\* generate-diagnosis, print-report for pod ((k-1) div 4)+1 of the list, so the
\* report of a pod precedes every step of the next; and each printed report
\* carries the diagnosis of that pod's own logs and events, nothing of an
\* earlier pod.
C14_PodsStrictlySequential ==
  InPodLoop =>
    \A k \in 1..Len(calls) :
      LET pod == locals.pods_to_analyze[((k - 1) \div 4) + 1]
      IN  /\ calls[k].step = PodSteps[((k - 1) % 4) + 1]
          /\ calls[k].pod = pod.name
          /\ calls[k].step = "print_pod_report" =>
               calls[k].diagnosis =
                 Diagnosis(PodPrompt(pod,
                                     IF env.logs_fail THEN << >> ELSE PodLogs(pod.name),
                                     PodEvents(pod.name)))

\* a run that has reported on two pods and is about to fetch the third's logs
C14_Witness ==
  /\ InPodLoop
  /\ pc = "logs"
  /\ locals.i = 3
  /\ Len(calls) = 8

-----------------------------------------------------------------------------
(* The prompt builders: explain_vulnerability, generate_summary,           *)
(* analyze_pod_failure, analyze_costs, analyze_failure, generate_terraform *)

PromptBuilders ==
  {"explain_vulnerability", "generate_summary", "analyze_pod_failure",
   "analyze_costs", "analyze_failure", "generate_terraform"}

MaxFieldLen == 5000

WorkflowFileLimit == 1000

\* an input that is interpolated as it is, whatever its length
Uncut(name) ==
  [name |-> name, cut |-> FALSE, limit |-> 0, inherent |-> FALSE,
   if_empty |-> << >>, before |-> << >>, after |-> << >>]

\* an input of a type whose text is short by itself (a bool, a count, a
\* command-line choice), interpolated as it is
Short(name) == [Uncut(name) EXCEPT !.inherent = TRUE]

\* an input interpolated as before + raw[:limit] + after, or as if_empty
\* when it is empty
Cut(name, limit, if_empty, before, after) ==
  [name |-> name, cut |-> TRUE, limit |-> limit, inherent |-> FALSE,
   if_empty |-> if_empty, before |-> before, after |-> after]

Fence == <<Backquote, Backquote, Backquote>>

\* the replacement fields of each prompt f-string, in order of appearance
PromptFields(op) ==
  CASE op = "explain_vulnerability" ->
         <<Uncut("id"), Uncut("package"), Uncut("version"), Uncut("severity"),
           Uncut("title"), Uncut("fixed_version")>>
    [] op = "generate_summary" ->
         <<Uncut("image_name"), Short("total"), Short("critical_count"),
           Short("high_count"), Uncut("vulnerable_packages")>>
    [] op = "analyze_pod_failure" ->
         <<Uncut("name"), Uncut("status"), Short("ready"), Short("restarts"),
           Cut("logs", PodLogLimit, NoLogsAvailable, << >>, << >>),
           Cut("events", PodEventLimit, NoEventsAvailable, << >>, << >>)>>
    [] op = "analyze_costs" ->
         <<Short("total_cost"), Uncut("services_text"), Short("resources_text")>>
    [] op = "analyze_failure" ->
         <<Uncut("workflow_name"), Uncut("job_name"),
           Cut("workflow_file", WorkflowFileLimit, << >>,
               <<"W","o","r","k","f","l","o","w"," ","Y","A","M","L",":">> \o <<NL>> \o Fence \o <<"y","a","m","l">> \o <<NL>>,
               <<NL>> \o Fence \o <<NL, NL>>),
           Cut("error_logs", PromptLogLimit, << >>, << >>, << >>)>>
    [] op = "generate_terraform" ->
         <<Uncut("description"), Short("provider"), Short("provider"),
           Short("provider")>>

\* the number of characters of each prompt f-string outside its replacement
\* fields
TemplateLength(op) ==
  CASE op = "explain_vulnerability" -> 336
    [] op = "generate_summary"      -> 754
    [] op = "analyze_pod_failure"   -> 607
    [] op = "analyze_costs"         -> 797
    [] op = "analyze_failure"       -> 745
    [] op = "generate_terraform"    -> 1463

\* every field interpolated as it is
Interpolate_Uncut(field, raw) == raw

\* the text a replacement field contributes for the input value raw
Interpolate(field, raw) ==
  IF ~field.cut THEN raw
  ELSE IF raw = << >> THEN field.if_empty
  ELSE field.before \o Take(raw, field.limit) \o field.after

RECURSIVE SumLen(_)
SumLen(parts) == IF parts = << >> THEN 0 ELSE Len(Head(parts)) + SumLen(Tail(parts))

\* the interpolated fields and the length of the prompt built from `raw`
BuildPrompt(op, raw) ==
  LET fields == PromptFields(op)
      parts  == [k \in 1..Len(fields) |-> Interpolate(fields[k], raw[fields[k].name])]
  IN  [parts |-> parts, length |-> TemplateLength(op) + SumLen(parts)]

(* Inputs of the prompt builders *)

InputNames(op) == {f.name : f \in Range(PromptFields(op))}

\* the values of the inputs whose text is short by itself
ShortValues(name) ==
  CASE name = "ready"          -> <<<<"T","r","u","e">>, <<"F","a","l","s","e">>>>
    [] name = "provider"       -> <<<<"a","w","s">>, <<"a","z","u","r","e">>, <<"g","c","p">>>>
    [] name = "total_cost"     -> <<<<"0",".","0","0">>, <<"1","2","3","4",".","5","6">>>>
    [] name = "resources_text" -> <<<<"-"," ","E","c","2"," ","I","n","s","t","a","n","c","e","s",":"," ","0">>>>
    [] OTHER                   -> <<<<"0">>, <<"1","2">>>>

\* the values tried for an input: for a cut one, texts on both sides of its
\* limit
RawValues(field) ==
  IF field.inherent THEN ShortValues(field.name)
  ELSE IF field.cut
  THEN <<Filler(0), Filler(field.limit), Filler(field.limit + 1), Filler(MaxFieldLen)>>
  ELSE <<Filler(1), Filler(MaxFieldLen)>>

FieldNamed(op, name) == CHOOSE f \in Range(PromptFields(op)) : f.name = name

RawInputs(op) ==
  LET names  == InputNames(op)
      values == [n \in names |-> RawValues(FieldNamed(op, n))]
      picks  == {c \in [names -> 1..4] : \A n \in names : c[n] <= Len(values[n])}
  IN  {[n \in names |-> values[n][c[n]]] : c \in picks}

ToolOf(op) ==
  CASE op \in {"explain_vulnerability", "generate_summary"} -> "scanner"
    [] op = "analyze_pod_failure" -> "k8s"
    [] op = "analyze_costs"       -> "aws"
    [] op = "analyze_failure"     -> "healer"
    [] op = "generate_terraform"  -> "terraform"

PromptInit ==
  /\ pc = "building"
  /\ \E op \in PromptBuilders :
       /\ tool = ToolOf(op)
       /\ \E r \in RawInputs(op) : env = [op |-> op, raw |-> r]
  /\ locals = << >>
  /\ calls = << >>
  /\ exit_status = "running"
  /\ HealerIdle
  /\ K8sIdle
  /\ ResponseIdle

\* prompt = f"""...""" of the builder, up to its call of ask_ollama
BuildThePrompt ==
  /\ pc = "building"
  /\ locals' = BuildPrompt(env.op, env.raw)
  /\ pc' = "built"
  /\ UNCHANGED <<tool, env, calls, exit_status, healerVars, k8sVars, responseVars>>

PromptNext == BuildThePrompt

SpecPrompt == PromptInit /\ [][PromptNext]_vars

-----------------------------------------------------------------------------
(* Properties of the prompt builders *)

Built == pc = "built" /\ tool \in OllamaTools

\* the most a cut field can contribute
CutBound(field) ==
  Max(Len(field.if_empty), Len(field.before) + field.limit + Len(field.after))

RECURSIVE SumBounds(_, _, _)
SumBounds(fields, raw, uncut_bound) ==
  IF fields = << >> THEN 0
  ELSE LET f == Head(fields)
       IN  (IF f.cut THEN CutBound(f)
            ELSE IF f.inherent THEN Len(raw[f.name])
            ELSE uncut_bound[f.name])
           + SumBounds(Tail(fields), raw, uncut_bound)

\* C15 (as stated): in every prompt builder each interpolated field is cut
\* to a fixed limit, none larger than the 2000 characters of the pod logs,
\* so the prompt is never longer than its template plus those limits,
\* whatever the size of the input data.
C15_EveryFieldCut ==
  Built =>
    LET fields == PromptFields(env.op)
    IN  /\ \A k \in 1..Len(fields) :
             fields[k].inherent \/ Len(locals.parts[k]) <= Max(CutBound(fields[k]), PodLogLimit)
        /\ locals.length <=
             TemplateLength(env.op)
               + SumBounds(fields, env.raw, [n \in InputNames(env.op) |-> PodLogLimit])

\* C15 (amended): exactly the pod logs (2000), the pod events (1000), the
\* workflow YAML (1000) and the workflow error logs (1200) are cut before
\* interpolation; every other field is interpolated whole, so the prompt is
\* bounded by its template plus those limits plus the lengths of its uncut
\* inputs, and is independent only of the size of the cut inputs.
C15_OnlyBulkFieldsCut ==
  Built =>
    LET fields == PromptFields(env.op)
    IN  /\ \A k \in 1..Len(fields) :
             IF fields[k].cut
             THEN Len(locals.parts[k]) <= CutBound(fields[k])
             ELSE locals.parts[k] = env.raw[fields[k].name]
        /\ locals.length <=
             TemplateLength(env.op)
               + SumBounds(fields, env.raw,
                           [n \in InputNames(env.op) |-> Len(env.raw[n])])

\* a pod prompt whose 5000 characters of logs were cut to 2000 while the pod
\* name went in whole
C15_Witness ==
  /\ Built
  /\ env.op = "analyze_pod_failure"
  /\ Len(env.raw["logs"]) > PodLogLimit
  /\ Len(locals.parts[5]) = PodLogLimit
  /\ Len(locals.parts[1]) > PodLogLimit

-----------------------------------------------------------------------------
(* save_report of docker_scanner, aws_cost_detective and                   *)
(* github_actions_healer: the JSON report written to --output              *)

SaveTools == {"scanner", "aws", "healer"}

MaxDepth == 2

DirNames == {"a", "b"}

ReportName == "report.json"

\* a path is the sequence of its components; << >> is the working directory
DirPaths == UNION {[1..n -> DirNames] : n \in 0..MaxDepth}

Parent(path) == SubSeq(path, 1, Len(path) - 1)

\* the directory trees that can exist: every directory has its parent
DirTrees ==
  {d \in SUBSET DirPaths : << >> \in d /\ \A p \in d : p = << >> \/ Parent(p) \in d}

\* open(filename, 'w') followed by json.dump: the file is created in an existing
\* directory, otherwise open raises FileNotFoundError
open_for_writing(fs, filename) ==
  IF Parent(filename) \in fs.dirs
  THEN Returned([fs EXCEPT !.files = @ \cup {filename}])
  ELSE Raised("FileNotFoundError")

save_report(fs, filename) == open_for_writing(fs, filename)

SaveInit ==
  /\ tool \in SaveTools
  /\ pc = "reported"
  /\ env \in [dirs : DirTrees, files : {{}},
              filename : {Append(d, ReportName) : d \in DirPaths}]
  /\ locals = << >>
  /\ calls = << >>
  /\ exit_status = "running"
  /\ HealerIdle
  /\ K8sIdle
  /\ ResponseIdle

\* main: if args.output: save_report(..., args.output); nothing in main
\* catches what save_report raises
SaveReport ==
  /\ tool \in SaveTools
  /\ pc = "reported"
  /\ LET result == save_report([dirs |-> env.dirs, files |-> env.files], env.filename)
     IN  /\ locals' = result
         /\ IF result.raised
            THEN /\ exit_status' = "1"
                 /\ UNCHANGED env
            ELSE /\ env' = [env EXCEPT !.dirs = result.value.dirs,
                                       !.files = result.value.files]
                 /\ UNCHANGED exit_status
  /\ pc' = "saved"
  /\ UNCHANGED <<tool, calls, healerVars, k8sVars, responseVars>>

SaveNext == SaveReport

SpecSave == SaveInit /\ [][SaveNext]_vars

-----------------------------------------------------------------------------
(* Properties of save_report *)

\* C16: save_report never fails for want of a directory: after it the parent
\* directory of the report path exists, created if it was missing, and the
\* report file is written.
C16_ParentDirectoriesCreated ==
  (tool \in SaveTools /\ pc = "saved") =>
    /\ ~locals.raised
    /\ Parent(env.filename) \in env.dirs
    /\ env.filename \in env.files

-----------------------------------------------------------------------------
(* github_actions_healer.py: main, the choice of the workflow run *)

MaxRunId == 4

RunIds == 1..MaxRunId

\* the lists get_workflow_runs(status="failure") can return: distinct runs,
\* most recent first
FailedRunLists ==
  UNION {{r \in [1..n -> RunIds] : \A a, b \in 1..n : a # b => r[a] # r[b]} :
         n \in 0..3}

\* argparse leaves args.run_id at None without --run-id
NoRunId == 0

\* workflow = failed_runs[0]
ChosenRun(failed_runs, run_id) == failed_runs[1]

RunChoiceInit ==
  /\ tool = "healer"
  /\ pc = "checked"
  /\ env \in [run_id : {NoRunId} \cup RunIds, failed_runs : FailedRunLists]
  /\ locals = [workflow |-> NoRunId]
  /\ calls = << >>
  /\ exit_status = "running"
  /\ HealerIdle
  /\ K8sIdle
  /\ ResponseIdle

\* main from `if args.run_id:` to `workflow = failed_runs[0]`
ChooseWorkflow ==
  /\ tool = "healer"
  /\ pc = "checked"
  /\ LET notice == IF env.run_id # NoRunId
                   THEN <<[print |-> "not implemented", run |-> env.run_id]>>
                   ELSE << >>
     IN  IF env.failed_runs = << >>
         THEN /\ calls' = calls \o notice
              /\ exit_status' = "0"
              /\ pc' = "exited"
              /\ UNCHANGED locals
         ELSE /\ calls' = calls \o notice
              /\ locals' = [locals EXCEPT !.workflow =
                              ChosenRun(env.failed_runs, env.run_id)]
              /\ pc' = "chosen"
              /\ UNCHANGED exit_status
  /\ UNCHANGED <<tool, env, healerVars, k8sVars, responseVars>>

\* main from get_workflow_jobs to print_analysis_report, for a run whose
\* jobs and logs can be fetched
AnalyzeWorkflow ==
  /\ tool = "healer"
  /\ pc = "chosen"
  /\ calls' = Append(calls, [print |-> "report", run |-> locals.workflow])
  /\ exit_status' = "0"
  /\ pc' = "exited"
  /\ UNCHANGED <<tool, env, locals, healerVars, k8sVars, responseVars>>

RunChoiceNext == ChooseWorkflow \/ AnalyzeWorkflow

SpecRunChoice == RunChoiceInit /\ [][RunChoiceNext]_vars

-----------------------------------------------------------------------------
(* Properties of the choice of the run *)

\* C17: with --run-id N, every report the healer prints is about run N.
C17_RunIdIsAnalysed ==
  (tool = "healer" /\ pc \in {"chosen", "exited"} /\ env.run_id # NoRunId) =>
    \A k \in 1..Len(calls) :
      calls[k].print = "report" => calls[k].run = env.run_id

-----------------------------------------------------------------------------
(* compare_images.py: quick_scan and main *)

MaxImages == 3

ImageName(k) == <<"i", "m", "g">> \o IntToStr(k)

\* what scan_image and extract_vulnerabilities yield for an image: no scan
\* data, or the vulnerabilities counted by severity
ScanOutcomes ==
  {[scanned |-> FALSE, total |-> 0, critical |-> 0, high |-> 0],
   [scanned |-> TRUE, total |-> 0, critical |-> 0, high |-> 0],
   [scanned |-> TRUE, total |-> 1, critical |-> 1, high |-> 0],
   [scanned |-> TRUE, total |-> 2, critical |-> 0, high |-> 2],
   [scanned |-> TRUE, total |-> 2, critical |-> 1, high |-> 1]}

\* quick_scan: None without scan data, else the counts of the image
quick_scan(image_name, outcome) ==
  IF ~outcome.scanned THEN << >>
  ELSE <<[image |-> image_name, total |-> outcome.total,
          critical |-> outcome.critical, high |-> outcome.high]>>

\* list.sort(key=lambda x: x['total']): stable, ascending
RECURSIVE InsertByTotal(_, _)
InsertByTotal(sorted, r) ==
  IF sorted = << >> THEN <<r>>
  ELSE IF Head(sorted).total <= r.total
       THEN <<Head(sorted)>> \o InsertByTotal(Tail(sorted), r)
       ELSE <<r>> \o sorted

RECURSIVE SortFrom(_, _, _)
SortFrom(results, k, acc) ==
  IF k > Len(results) THEN acc
  ELSE SortFrom(results, k + 1, InsertByTotal(acc, results[k]))

\* the list left in scan order
SortByTotal_Unsorted(results) == results

SortByTotal(results) == SortFrom(results, 1, << >>)

CompareInit ==
  /\ tool = "compare"
  /\ pc = "started"
  /\ \E n \in 0..MaxImages :
       env \in [images : [1..n -> ScanOutcomes], tools_installed : BOOLEAN]
  /\ locals = [i |-> 0, results |-> << >>]
  /\ calls = << >>
  /\ exit_status = "running"
  /\ HealerIdle
  /\ K8sIdle
  /\ ResponseIdle

\* main: the usage check on sys.argv
CheckUsage ==
  /\ tool = "compare"
  /\ pc = "started"
  /\ IF Len(env.images) < 2
     THEN /\ calls' = Append(calls, [print |-> "usage"])
          /\ exit_status' = "1"
          /\ pc' = "exited"
          /\ UNCHANGED locals
     ELSE /\ locals' = [locals EXCEPT !.i = 1]
          /\ pc' = "scanning"
          /\ UNCHANGED <<calls, exit_status>>
  /\ UNCHANGED <<tool, env, healerVars, k8sVars, responseVars>>

\* one turn of `for image in images`
QuickScan ==
  /\ tool = "compare"
  /\ pc = "scanning"
  /\ locals.i <= Len(env.images)
  /\ IF ~env.tools_installed
     THEN \* scan_image: subprocess.run raises FileNotFoundError
          /\ calls' = Append(calls, [print |-> "traceback"])
          /\ exit_status' = "1"
          /\ pc' = "exited"
          /\ UNCHANGED locals
     ELSE LET result == quick_scan(ImageName(locals.i), env.images[locals.i])
          IN  /\ locals' = [locals EXCEPT !.i = @ + 1, !.results = @ \o result]
              /\ calls' = Append(calls,
                                 [print |-> IF result # << >> THEN "found"
                                            ELSE "scan failed",
                                  image |-> ImageName(locals.i)])
              /\ UNCHANGED <<pc, exit_status>>
  /\ UNCHANGED <<tool, env, healerVars, k8sVars, responseVars>>

\* main after the loop: the sorted table and the recommendation
PrintComparison ==
  /\ tool = "compare"
  /\ pc = "scanning"
  /\ locals.i > Len(env.images)
  /\ IF locals.results = << >>
     THEN /\ calls' = Append(calls, [print |-> "no results"])
          /\ UNCHANGED locals
     ELSE LET results == SortByTotal(locals.results)
          IN  /\ locals' = [locals EXCEPT !.results = results]
              /\ calls' = calls \o
                   <<[print |-> "table", rows |-> results],
                     [print |-> "recommendation", image |-> results[1].image,
                      total |-> results[1].total]>>
  /\ exit_status' = "0"
  /\ pc' = "exited"
  /\ UNCHANGED <<tool, env, healerVars, k8sVars, responseVars>>

CompareNext == CheckUsage \/ QuickScan \/ PrintComparison

SpecCompare == CompareInit /\ [][CompareNext]_vars

-----------------------------------------------------------------------------
(* Properties of compare_images *)

Compared == tool = "compare" /\ pc = "exited"

\* the images of the command line whose scan yielded data
Succeeded == {k \in 1..Len(env.images) : env.images[k].scanned}

Printed(what) == {k \in 1..Len(calls) : calls[k].print = what}

\* C18: the table lists exactly the successfully scanned images, in ascending
\* order of total; the recommended image is the first row and its total is at
\* most that of every successfully scanned image; an image whose scan failed
\* is in neither; without a successful scan nothing is recommended, and a
\* finished comparison with a successful scan does recommend.
C18_RecommendsTheMinimum ==
  Compared =>
    /\ \A k \in Printed("table") :
         LET rows == calls[k].rows
         IN  /\ \A a, b \in 1..Len(rows) : a < b => rows[a].total <= rows[b].total
             /\ Len(rows) = Cardinality(Succeeded)
             /\ {r.image : r \in Range(rows)} = {ImageName(s) : s \in Succeeded}
             /\ \A r \in Range(rows) :
                  \E s \in Succeeded :
                    /\ r.image = ImageName(s)
                    /\ r.total = env.images[s].total
    /\ \A k \in Printed("recommendation") :
         /\ calls[k - 1].print = "table"
         /\ calls[k].image = calls[k - 1].rows[1].image
         /\ calls[k].image \in {ImageName(s) : s \in Succeeded}
         /\ \A s \in Succeeded : calls[k].total <= env.images[s].total
    /\ Succeeded = {} => Printed("recommendation") = {} /\ Printed("table") = {}
    /\ (Succeeded # {} /\ exit_status = "0") => Printed("recommendation") # {}

\* three images, the first with two findings, the second unscannable, the
\* third with none: the third is recommended and the second is not listed
C18_Witness ==
  /\ Compared
  /\ Len(env.images) = 3
  /\ env.images[1].total = 2 /\ env.images[1].scanned
  /\ ~env.images[2].scanned
  /\ env.images[3].total = 0 /\ env.images[3].scanned
  /\ Printed("recommendation") # {}
  /\ calls[Len(calls)].image = ImageName(3)

-----------------------------------------------------------------------------
(* docker_scanner.py: extract_vulnerabilities *)

MaxResults == 2
MaxVulns == 2

\* d.get(key, default) on a dict d
Get(d, key, default) == IF key \in DOMAIN d THEN d[key] ELSE default

\* a key of a JSON object that should hold an array: missing, null or an array
JsonArray(kind, items) == [kind |-> kind, items |-> items]

\* d.get(key, []) handed to a for loop: the items, or the TypeError that
\* iterating over None raises
Iterate(array) ==
  CASE array.kind = "absent" -> Returned(<< >>)
    [] array.kind = "null"   -> Raised("TypeError")
    [] OTHER                 -> Returned(array.items)

\* the loop body without the test of seen_vulns
VulnStep_NoSeen(st, vuln) ==
  LET vuln_id == Get(vuln, "VulnerabilityID", "N/A")
  IN  [seen_vulns |-> st.seen_vulns \cup {vuln_id},
       vulnerabilities |-> Append(st.vulnerabilities,
         [id            |-> vuln_id,
          package       |-> Get(vuln, "PkgName", "N/A"),
          version       |-> Get(vuln, "InstalledVersion", "N/A"),
          severity      |-> Get(vuln, "Severity", "N/A"),
          title         |-> Get(vuln, "Title", "N/A"),
          description   |-> Get(vuln, "Description", "N/A"),
          fixed_version |-> Get(vuln, "FixedVersion", "Not available")])]

\* the body of `for vuln in result.get("Vulnerabilities", [])`
VulnStep(st, vuln) ==
  LET vuln_id == Get(vuln, "VulnerabilityID", "N/A")
  IN  IF vuln_id \in st.seen_vulns THEN st
      ELSE [seen_vulns |-> st.seen_vulns \cup {vuln_id},
            vulnerabilities |-> Append(st.vulnerabilities,
              [id            |-> vuln_id,
               package       |-> Get(vuln, "PkgName", "N/A"),
               version       |-> Get(vuln, "InstalledVersion", "N/A"),
               severity      |-> Get(vuln, "Severity", "N/A"),
               title         |-> Get(vuln, "Title", "N/A"),
               description   |-> Get(vuln, "Description", "N/A"),
               fixed_version |-> Get(vuln, "FixedVersion", "Not available")])]

\* the inner for loop, from the k-th vulnerability on
RECURSIVE VulnLoop(_, _, _)
VulnLoop(st, vulns, k) ==
  IF k > Len(vulns) THEN st ELSE VulnLoop(VulnStep(st, vulns[k]), vulns, k + 1)

\* the outer for loop, from the k-th result on
RECURSIVE ResultLoop(_, _, _)
ResultLoop(st, results, k) ==
  IF k > Len(results) THEN Returned(st.vulnerabilities)
  ELSE LET vulns == Iterate(results[k])
       IN  IF vulns.raised THEN vulns
           ELSE ResultLoop(VulnLoop(st, vulns.value, 1), results, k + 1)

extract_vulnerabilities(scan_data) ==
  LET results == Iterate(scan_data)
  IN  IF results.raised THEN results
      ELSE ResultLoop([seen_vulns |-> {}, vulnerabilities |-> << >>], results.value, 1)

(* Inputs of extract_vulnerabilities: what json.loads made of trivy's output *)

Vulns ==
  { [VulnerabilityID |-> "CVE-1", PkgName |-> "openssl"],
    [VulnerabilityID |-> "CVE-1", PkgName |-> "libssl"],
    [VulnerabilityID |-> "CVE-2", PkgName |-> "openssl"],
    [PkgName |-> "zlib"] }

\* the value of one key that should hold an array of `items`
JsonArrays(items, max) ==
  {JsonArray("absent", << >>), JsonArray("null", << >>)}
    \cup {JsonArray("array", s) : s \in UNION {[1..n -> items] : n \in 0..max}}

\* the "Vulnerabilities" key of one entry of Results
ResultEntries == JsonArrays(Vulns, MaxVulns)

\* the "Results" key of scan_data
ScanData == JsonArrays(ResultEntries, MaxResults)

ExtractInit ==
  /\ tool = "scanner"
  /\ pc = "scanned"
  /\ env \in ScanData
  /\ locals = << >>
  /\ calls = << >>
  /\ exit_status = "running"
  /\ HealerIdle
  /\ K8sIdle
  /\ ResponseIdle

\* main: all_vulnerabilities = scanner.extract_vulnerabilities(scan_data);
\* nothing in main catches what it raises
ExtractVulnerabilities ==
  /\ tool = "scanner"
  /\ pc = "scanned"
  /\ LET result == extract_vulnerabilities(env)
     IN  /\ locals' = result
         /\ exit_status' = IF result.raised THEN "1" ELSE exit_status
  /\ pc' = "extracted"
  /\ UNCHANGED <<tool, env, calls, healerVars, k8sVars, responseVars>>

ExtractNext == ExtractVulnerabilities

SpecExtract == ExtractInit /\ [][ExtractNext]_vars

(* Properties of extract_vulnerabilities *)

VulnsExtracted == tool = "scanner" /\ pc = "extracted" /\ ~locals.raised

\* every vulnerability of the scan, in the order of the document
AllVulns(scan_data) ==
  Concat([k \in 1..Len(scan_data.items) |-> scan_data.items[k].items])

\* the position in `all` of the first vulnerability with the id `id`
FirstWithId(all, id) ==
  CHOOSE i \in 1..Len(all) :
    /\ Get(all[i], "VulnerabilityID", "N/A") = id
    /\ \A j \in 1..(i - 1) : Get(all[j], "VulnerabilityID", "N/A") # id

\* C23: no two returned entries share an id, every VulnerabilityID of the
\* scan occurs exactly once in the output, the entries are in order of first
\* occurrence, and each carries the fields of the first occurrence of its id.
C23_DeduplicatedById ==
  VulnsExtracted =>
    LET out == locals.value
        all == AllVulns(env)
        ids == {Get(all[i], "VulnerabilityID", "N/A") : i \in 1..Len(all)}
    IN  /\ \A a, b \in 1..Len(out) : a # b => out[a].id # out[b].id
        /\ \A id \in ids : Cardinality({j \in 1..Len(out) : out[j].id = id}) = 1
        /\ \A j \in 1..Len(out) : out[j].id \in ids
        /\ \A a, b \in 1..Len(out) :
             a < b => FirstWithId(all, out[a].id) < FirstWithId(all, out[b].id)
        /\ \A j \in 1..Len(out) :
             out[j].package = Get(all[FirstWithId(all, out[j].id)], "PkgName", "N/A")

\* CVE-1 is reported for libssl in the first result and for openssl in the
\* second: one entry, for libssl
C23_Witness ==
  /\ VulnsExtracted
  /\ Len(env.items) = 2
  /\ Len(AllVulns(env)) = 4
  /\ Len(locals.value) = 2
  /\ locals.value[1].id = "CVE-1"
  /\ locals.value[1].package = "libssl"
  /\ \E i \in 1..4 : AllVulns(env)[i] = [VulnerabilityID |-> "CVE-1", PkgName |-> "openssl"]

-----------------------------------------------------------------------------
(* aws_cost_detective.py: parse_cost_data.  Amounts are in thousandths of a *)
(* dollar.                                                                   *)

MaxGroups == 3

\* the 0.01 of `if cost > 0.01`
CostThreshold == 10

\* group['Keys'][0] and float(group['Metrics']['UnblendedCost']['Amount']):
\* the values read from one group, or the exception the reading raises
ReadGroup(group) ==
  CASE group.kind = "no_metrics"  -> Raised("KeyError")
    [] group.kind = "not_a_number" -> Raised("ValueError")
    [] OTHER -> Returned([service |-> group.service, cost |-> group.amount])

\* the two nested for loops, from the k-th group on; `groups` lists the groups
\* of all results in order, each with the TimePeriod of its result
RECURSIVE GroupLoop(_, _, _)
GroupLoop(services, groups, k) ==
  IF k > Len(groups) THEN Returned(services)
  ELSE LET read == ReadGroup(groups[k])
       IN  IF read.raised THEN [raised |-> TRUE, value |-> read.value, services |-> services]
           ELSE GroupLoop(
                  IF read.value.cost > CostThreshold
                  THEN Append(services, [service |-> read.value.service,
                                         cost    |-> read.value.cost,
                                         period  |-> groups[k].period])
                  ELSE services,
                  groups, k + 1)

\* list.sort(key=cost, reverse=True): stable, so r goes behind every entry
\* that costs at least as much
RECURSIVE InsertByCost(_, _)
InsertByCost(sorted, r) ==
  IF sorted = << >> THEN <<r>>
  ELSE IF Head(sorted).cost >= r.cost
       THEN <<Head(sorted)>> \o InsertByCost(Tail(sorted), r)
       ELSE <<r>> \o sorted

RECURSIVE SortByCost(_, _, _)
SortByCost(services, k, acc) ==
  IF k > Len(services) THEN acc
  ELSE SortByCost(services, k + 1, InsertByCost(acc, services[k]))

\* the try block runs the loops and then the sort; an exception in the loops
\* skips the sort, `except Exception` swallows it, and `services` is returned
\* as it stands
parse_cost_data(groups) ==
  LET looped == GroupLoop(<< >>, groups, 1)
  IN  IF looped.raised THEN Returned(looped.services)
      ELSE Returned(SortByCost(looped.value, 1, << >>))

(* Inputs of parse_cost_data: the response of get_cost_and_usage *)

Amounts == {0, 10, 11, 5000}

Groups ==
  {[kind |-> "group", service |-> <<"S">> \o IntToStr(a), amount |-> a] : a \in Amounts}
    \cup {[kind |-> k, service |-> <<"S">>, amount |-> 0] :
            k \in {"no_metrics", "not_a_number"}}

\* the groups of a response of one or two monthly results, the first `split`
\* of them in the first result
CostData ==
  UNION { { [k \in 1..n |-> [kind    |-> g[k].kind,
                             service |-> g[k].service,
                             amount  |-> g[k].amount,
                             period  |-> IF k <= split THEN 1 ELSE 2]] :
              g \in [1..n -> Groups], split \in 0..n } :
          n \in 0..MaxGroups }

CostInit ==
  /\ tool = "aws"
  /\ pc = "fetched"
  /\ env \in CostData
  /\ locals = << >>
  /\ calls = << >>
  /\ exit_status = "running"
  /\ HealerIdle
  /\ K8sIdle
  /\ ResponseIdle

\* main: services = detective.parse_cost_data(cost_data)
ParseCostData ==
  /\ tool = "aws"
  /\ pc = "fetched"
  /\ locals' = parse_cost_data(env)
  /\ pc' = "parsed"
  /\ UNCHANGED <<tool, env, calls, exit_status, healerVars, k8sVars, responseVars>>

CostNext == ParseCostData

SpecCost == CostInit /\ [][CostNext]_vars

(* Properties of parse_cost_data *)

\* C24: for every input, malformed groups included, parse_cost_data returns a
\* list without raising, the list is sorted by cost with the highest first,
\* and every entry of it costs more than 0.01.
C24_SortedNonZero ==
  (tool = "aws" /\ pc = "parsed") =>
    /\ ~locals.raised
    /\ \A a, b \in 1..Len(locals.value) :
         a < b => locals.value[a].cost >= locals.value[b].cost
    /\ \A a \in 1..Len(locals.value) : locals.value[a].cost > CostThreshold

-----------------------------------------------------------------------------
(* k8s_debugger.py: get_pod_logs *)

\* how one `kubectl logs` run can end
KubectlOutcomes == {"exit_0", "exit_nonzero", "timeout", "not_found", "undecodable"}

\* subprocess.run(..., text=True, check=True, timeout=10)
subprocess_run(run) ==
  CASE run.outcome = "exit_0"       -> Returned(run.stdout)
    [] run.outcome = "exit_nonzero" -> Raised("CalledProcessError")
    [] run.outcome = "timeout"      -> Raised("TimeoutExpired")
    [] run.outcome = "not_found"    -> Raised("FileNotFoundError")
    [] OTHER                        -> Raised("UnicodeDecodeError")

\* the bare `except:` of the inner try
RetryResult(second) == IF second.raised THEN Returned(<< >>) ELSE second

(* Inputs of get_pod_logs: what the two kubectl runs would do *)

LogTexts == { << >>, <<"o","k">>, <<"p","a","n","i","c">> }

KubectlRuns == [outcome : KubectlOutcomes, stdout : LogTexts]

PodLogsInit ==
  /\ tool = "k8s"
  /\ pc = "get_pod_logs"
  /\ env \in [logs : KubectlRuns, previous : KubectlRuns]
  /\ locals = << >>
  /\ calls = << >>
  /\ exit_status = "running"
  /\ HealerIdle
  /\ K8sIdle
  /\ ResponseIdle

\* the outer try: kubectl logs <pod> -n <namespace> --tail=50; its except
\* clauses send CalledProcessError to the retry and TimeoutExpired to "", and
\* anything else leaves the function
KubectlLogs ==
  /\ tool = "k8s"
  /\ pc = "get_pod_logs"
  /\ calls' = Append(calls, "logs")
  /\ LET first == subprocess_run(env.logs)
     IN  IF ~first.raised
         THEN locals' = first /\ pc' = "returned"
         ELSE IF first.value = "CalledProcessError"
         THEN locals' = locals /\ pc' = "retrying"
         ELSE IF first.value = "TimeoutExpired"
         THEN locals' = Returned(<< >>) /\ pc' = "returned"
         ELSE locals' = first /\ pc' = "returned"
  /\ UNCHANGED <<tool, env, exit_status, healerVars, k8sVars, responseVars>>

\* the inner try: kubectl logs <pod> -n <namespace> --previous --tail=50
KubectlLogsPrevious ==
  /\ tool = "k8s"
  /\ pc = "retrying"
  /\ calls' = Append(calls, "logs --previous")
  /\ locals' = RetryResult(subprocess_run(env.previous))
  /\ pc' = "returned"
  /\ UNCHANGED <<tool, env, exit_status, healerVars, k8sVars, responseVars>>

PodLogsNext == KubectlLogs \/ KubectlLogsPrevious

SpecPodLogs == PodLogsInit /\ [][PodLogsNext]_vars

(* Properties of get_pod_logs *)

\* C25: get_pod_logs returns the output of the first kubectl logs call when
\* that succeeds; it retries once with --previous only when the first call
\* exits non-zero and returns that output on success; it returns the empty
\* string when the first call times out or the retry fails in any way; at
\* most two calls are made and no exception of either reaches the caller.
C25_TwoStepFallback ==
  (tool = "k8s" /\ pc = "returned") =>
    /\ Len(calls) <= 2
    /\ Len(calls) = 2 <=> env.logs.outcome = "exit_nonzero"
    /\ ~locals.raised
    /\ env.logs.outcome = "exit_0" => locals.value = env.logs.stdout
    /\ (env.logs.outcome = "exit_nonzero" /\ env.previous.outcome = "exit_0")
         => locals.value = env.previous.stdout
    /\ (env.logs.outcome = "exit_nonzero" /\ env.previous.outcome # "exit_0")
         => locals.value = << >>
    /\ env.logs.outcome = "timeout" => locals.value = << >>

-----------------------------------------------------------------------------
(* k8s_debugger.py: get_pods, the health of a pod, and the pods main picks *)

\* any(...) in place of all(...)
AllReady_Any(container_statuses) ==
  \E k \in 1..Len(container_statuses) : Get(container_statuses[k], "ready", FALSE)

\* ready = all(cs.get("ready", False) for cs in container_statuses)
AllReady(container_statuses) ==
  \A k \in 1..Len(container_statuses) : Get(container_statuses[k], "ready", FALSE)

\* restart_count = sum(cs.get("restartCount", 0) for cs in container_statuses)
RECURSIVE RestartCount(_)
RestartCount(container_statuses) ==
  IF container_statuses = << >> THEN 0
  ELSE Get(Head(container_statuses), "restartCount", 0)
         + RestartCount(Tail(container_statuses))

\* the body of `for item in data.get("items", [])`
PodFromItem(item) ==
  PodInfo(item.name, item.phase,
          AllReady(item.containerStatuses), RestartCount(item.containerStatuses))

(* Inputs of get_pods: the items of `kubectl get pods -o json` *)

ContainerStatusLists ==
  { << >>,
    << [ready |-> TRUE, restartCount |-> 0] >>,
    << [ready |-> TRUE, restartCount |-> 0], [ready |-> TRUE, restartCount |-> 2] >>,
    << [ready |-> TRUE, restartCount |-> 0], [ready |-> FALSE, restartCount |-> 0] >>,
    << [restartCount |-> 0] >> }

PodPhases == {"Running", "Pending"}

\* items named p1..pn in the order kubectl lists them
PodItems ==
  UNION { { [k \in 1..n |-> [name |-> PodName(k), phase |-> c[k][1],
                             containerStatuses |-> c[k][2]]] :
              c \in [1..n -> PodPhases \X ContainerStatusLists] } :
          n \in 0..MaxPods }

GetPodsInit ==
  /\ tool = "k8s"
  /\ pc = "listing"
  /\ \E items \in PodItems, args_all \in BOOLEAN,
        args_pod \in {<< >>} \cup {PodName(k) : k \in 1..MaxPods} :
       env = [items |-> items, args_all |-> args_all, args_pod |-> args_pod,
              logs_fail |-> FALSE, pods |-> << >>]
  /\ locals = [pods_to_analyze |-> << >>, i |-> 0, logs |-> << >>,
               events |-> << >>, diagnosis |-> << >>]
  /\ calls = << >>
  /\ exit_status = "running"
  /\ HealerIdle
  /\ K8sIdle
  /\ ResponseIdle

\* pods = debugger.get_pods(args.namespace)
GetPods ==
  /\ tool = "k8s"
  /\ pc = "listing"
  /\ env' = [env EXCEPT !.pods = [k \in 1..Len(env.items) |-> PodFromItem(env.items[k])]]
  /\ pc' = "selecting"
  /\ UNCHANGED <<tool, locals, calls, exit_status, healerVars, k8sVars, responseVars>>

GetPodsNext == GetPods \/ PodLoopNext

SpecGetPods == GetPodsInit /\ [][GetPodsNext]_vars

(* Properties of get_pods and of the selection *)

\* the names of the pods a finished run made logs, events or generation calls
\* for, in the order of the first such call
AnalysedPods ==
  LET firsts == {k \in 1..Len(calls) : calls[k].step = "get_pod_logs"}
  IN  [j \in 1..Cardinality(firsts) |->
         calls[CHOOSE k \in firsts : Cardinality({q \in firsts : q < k}) = j - 1].pod]

\* C26: a pod is marked healthy exactly when its phase is Running, each of
\* its container statuses is ready and its restarts add up to 0; without
\* --pod a finished run has analysed exactly the pods not marked healthy (and
\* made no call at all when there are none); with --pod it has analysed
\* exactly the pod of that name, whatever its health.
C26_HealthAndSelection ==
  (tool = "k8s" /\ pc # "listing") =>
    /\ \A k \in 1..Len(env.items) :
         LET item == env.items[k]
             css  == item.containerStatuses
         IN  env.pods[k].healthy <=>
               /\ item.phase = "Running"
               /\ \A c \in 1..Len(css) : "ready" \in DOMAIN css[c] /\ css[c].ready
               /\ \A c \in 1..Len(css) :
                    "restartCount" \in DOMAIN css[c] => css[c].restartCount = 0
    /\ \A k \in 1..Len(calls) : calls[k].pod \in {p.name : p \in Range(locals.pods_to_analyze)}
    /\ (pc = "exited" /\ exit_status = "0") =>
         IF env.args_pod = << >>
         THEN /\ {AnalysedPods[j] : j \in 1..Len(AnalysedPods)}
                   = {p.name : p \in {q \in Range(env.pods) : ~q.healthy}}
              /\ Len(AnalysedPods) = Cardinality({q \in Range(env.pods) : ~q.healthy})
              /\ (\A q \in Range(env.pods) : q.healthy) => calls = << >>
         ELSE AnalysedPods = <<env.args_pod>>

\* --pod p2 names a healthy pod among unhealthy ones: p2 alone is analysed
C26_Witness ==
  /\ tool = "k8s"
  /\ pc = "exited"
  /\ exit_status = "0"
  /\ env.args_pod = PodName(2)
  /\ Len(env.pods) = 3
  /\ env.pods[2].healthy
  /\ ~env.pods[1].healthy
  /\ Len(env.items[2].containerStatuses) = 1
  /\ Len(calls) = 4

-----------------------------------------------------------------------------
(* terraform_generator.py: save_files.  A resolved path is the sequence of *)
(* its components from the root directory.                                  *)

PathSep == "/"

\* os.path.join(a, b) on POSIX: an absolute b discards a
os_path_join(a, b) ==
  IF b # << >> /\ b[1] = PathSep THEN b
  ELSE IF a = << >> \/ a[Len(a)] = PathSep THEN a \o b
  ELSE a \o <<PathSep>> \o b

\* what the kernel makes of the components of a path: empty and "."
\* components are skipped, ".." steps to the parent (the root is its own)
RECURSIVE WalkPath(_, _, _)
WalkPath(parts, k, at) ==
  IF k > Len(parts) THEN at
  ELSE IF parts[k] = << >> \/ parts[k] = <<".">> THEN WalkPath(parts, k + 1, at)
  ELSE IF parts[k] = <<".", ".">>
       THEN WalkPath(parts, k + 1, IF at = << >> THEN at ELSE Parent(at))
  ELSE WalkPath(parts, k + 1, Append(at, parts[k]))

\* the file or directory a path names for a process whose working directory
\* is cwd
Resolve(cwd, path) ==
  WalkPath(SplitOn(path, <<PathSep>>), 1,
           IF path # << >> /\ path[1] = PathSep THEN << >> ELSE cwd)

\* os.makedirs(output_dir, exist_ok=True): the directory and its ancestors
os_makedirs(fs, dir) ==
  [fs EXCEPT !.dirs = @ \cup {SubSeq(dir, 1, n) : n \in 0..Len(dir)}]

\* the keys of `files` in dict order: the order of insertion, which for
\* marker-delimited files with non-empty content is the order of the names in
\* the response
RECURSIVE KeysInOrder(_, _)
KeysInOrder(keys, response) ==
  IF keys = {} THEN << >>
  ELSE LET first == CHOOSE k \in keys :
                      \A j \in keys : Find(response, k, 0) <= Find(response, j, 0)
       IN  <<first>> \o KeysInOrder(keys \ {first}, response)

\* the for loop of save_files, from the k-th item on; an exception of open
\* ends it
RECURSIVE SaveLoop(_, _, _, _, _)
SaveLoop(fs, cwd, output_dir, names, k) ==
  IF k > Len(names) THEN Returned(fs)
  ELSE LET filepath == os_path_join(output_dir, names[k])
           opened   == open_for_writing(fs, Resolve(cwd, filepath))
       IN  IF opened.raised
           THEN [raised |-> TRUE, value |-> opened.value, fs |-> fs]
           ELSE SaveLoop(opened.value, cwd, output_dir, names, k + 1)

save_files(fs, cwd, output_dir, names) ==
  SaveLoop(os_makedirs(fs, Resolve(cwd, output_dir)), cwd, output_dir, names, 1)

(* Inputs of the save_files run *)

WorkingDirectory == << <<"w","o","r","k">> >>

OutputDirs == { <<"g","e","n","e","r","a","t","e","d">>, <<"o","u","t","/","t","f">> }

\* the names a model response can put between the markers
ResponseFilenames ==
  { MainTf,
    <<".","/","a",".","t","f">>,
    <<"s","u","b","/","x",".","t","f">>,
    <<".",".","/","e","v","i","l",".","t","f">>,
    <<"/","t","m","p","/","e","v","i","l",".","t","f">> }

SaveFilesResponses ==
  {BlockResponse(A, tA, B, tB) :
     A \in ResponseFilenames, B \in ResponseFilenames,
     tA \in {<<"x">>}, tB \in {<<"x">>, <<"y">>}}

SaveFilesInit ==
  /\ tool = "terraform"
  /\ pc = "generated"
  /\ ai_response \in SaveFilesResponses
  /\ files = << >>
  /\ parsed = << >>
  /\ \E output_dir \in OutputDirs :
       env = [dirs |-> {<< >>, WorkingDirectory, << <<"t","m","p">> >>},
              files |-> {}, cwd |-> WorkingDirectory, output_dir |-> output_dir]
  /\ locals = << >>
  /\ calls = << >>
  /\ exit_status = "running"
  /\ HealerIdle
  /\ K8sIdle

\* main: generator.save_files(files, args.output); nothing in main catches
\* what it raises
SaveFiles ==
  /\ tool = "terraform"
  /\ pc = "saving"
  /\ LET result == save_files([dirs |-> env.dirs, files |-> env.files], env.cwd,
                              env.output_dir, KeysInOrder(DOMAIN files, ai_response))
         fs     == IF result.raised THEN result.fs ELSE result.value
     IN  /\ env' = [env EXCEPT !.dirs = fs.dirs, !.files = fs.files]
         /\ locals' = [raised |-> result.raised]
         /\ exit_status' = IF result.raised THEN "1" ELSE exit_status
  /\ pc' = "saved"
  /\ UNCHANGED <<tool, calls, healerVars, k8sVars, responseVars>>

SaveFilesNext == ParseTerraformFiles \/ CheckFiles \/ SaveFiles

SpecSaveFiles == SaveFilesInit /\ [][SaveFilesNext]_vars

(* Properties of save_files *)

\* C28: every file written by save_files lies inside output_dir, whatever
\* filenames parse_terraform_files took from the model response.
C28_WritesInsideOutputDir ==
  (tool = "terraform" /\ pc = "saved") =>
    LET inside == Resolve(env.cwd, env.output_dir)
    IN  \A f \in env.files : Len(f) > Len(inside) /\ SubSeq(f, 1, Len(inside)) = inside

-----------------------------------------------------------------------------
(* docker_scanner.py: generate_summary, the comparison command *)

VariantsKey == <<"V","A","R","I","A","N","T","S","_","T","O","_","T","E","S","T">>

\* s.strip('[]'): square brackets removed from both ends
StripBrackets(s) ==
  LET keep == {i \in 1..Len(s) : s[i] \notin {"[", "]"}}
  IN  IF keep = {} THEN << >>
      ELSE SubSeq(s, CHOOSE i \in keep : \A j \in keep : i <= j,
                     CHOOSE i \in keep : \A j \in keep : j <= i)

\* [v.strip() for v in variants if v.strip()]
RECURSIVE StripNonEmpty(_)
StripNonEmpty(variants) ==
  IF variants = << >> THEN << >>
  ELSE LET v == Strip(Head(variants))
       IN  (IF v # << >> THEN <<v>> ELSE << >>) \o StripNonEmpty(Tail(variants))

\* ' '.join(parts)
RECURSIVE JoinSpaced(_)
JoinSpaced(parts) ==
  IF parts = << >> THEN << >>
  ELSE IF Len(parts) = 1 THEN parts[1]
  ELSE parts[1] \o <<" ">> \o JoinSpaced(Tail(parts))

\* image_name.split(':')[0]
BaseImage(image_name) == SplitOn(image_name, <<Colon>>)[1]

\* the arguments of the suggested command: what follows
\* "python src/compare_images.py " in comparison_cmd
ComparisonArgs(image_name, parsed_response) ==
  LET base_image == BaseImage(image_name)
  IN  IF VariantsKey \in DOMAIN parsed_response
      THEN LET variants ==
                 StripNonEmpty(SplitOn(StripBrackets(parsed_response[VariantsKey]), <<",">>))
           IN  image_name \o <<" ">>
                 \o JoinSpaced([k \in 1..Len(variants) |->
                                  base_image \o <<Colon>> \o variants[k]])
      ELSE image_name \o <<" ">> \o base_image \o <<":","a","l","p","i","n","e">>
             \o <<" ">> \o base_image \o <<":","s","l","i","m">>

\* the words a shell makes of a command line without quotes: sys.argv[1:]
ShellWords(s) ==
  LET words == SplitOn(s, <<" ">>)
  IN  StripNonEmpty(words)

(* Inputs of the summary run *)

ImageNames == { <<"n","g","i","n","x",":","l","a","t","e","s","t">>, <<"n","g","i","n","x">>, <<"l","o","c","a","l","h","o","s","t",":","5","0","0","0","/","a","p","p",":","1">> }

VariantLines == {
  PostureLine,
  <<"n","o"," ","c","o","l","o","n"," ","h","e","r","e">>,
  <<"V","A","R","I","A","N","T","S","_","T","O","_","T","E","S","T",":"," ","[","a","l","p","i","n","e",","," ","s","l","i","m","]">>,
  <<"V","A","R","I","A","N","T","S","_","T","O","_","T","E","S","T",":"," ","a","l","p","i","n","e">>,
  <<"V","A","R","I","A","N","T","S","_","T","O","_","T","E","S","T",":"," ","[","]">>,
  <<"V","A","R","I","A","N","T","S","_","T","O","_","T","E","S","T",":">>,
  <<"V","A","R","I","A","N","T","S","_","T","O","_","T","E","S","T",":"," ",","," ",",">>,
  <<"v","a","r","i","a","n","t","s","_","t","o","_","t","e","s","t",":"," ","s","l","i","m">> }

MaxVariantLines == 2

VariantResponses ==
  {JoinLines(ls) : ls \in UNION {[1..n -> VariantLines] : n \in 0..MaxVariantLines}}

SummaryInit ==
  /\ tool = "scanner"
  /\ pc = "answered"
  /\ ai_response \in VariantResponses
  /\ files = << >>
  /\ parsed = << >>
  /\ env \in [image_name : ImageNames]
  /\ locals = << >>
  /\ calls = << >>
  /\ exit_status = "running"
  /\ HealerIdle
  /\ K8sIdle

\* generate_summary, lines 240-266
BuildComparisonCommand ==
  /\ tool = "scanner"
  /\ pc = "parsed"
  /\ locals' = [comparison_args |-> ComparisonArgs(env.image_name, parsed)]
  /\ pc' = "summarised"
  /\ UNCHANGED <<tool, env, calls, exit_status, healerVars, k8sVars, responseVars>>

SummaryNext == ParseStructuredResponse \/ BuildComparisonCommand

SpecSummary == SummaryInit /\ [][SummaryNext]_vars

(* Properties of the comparison command *)

\* C29: the comparison command that generate_summary appends names at least
\* two images, the scanned image first and at least one variant after it,
\* whether VARIANTS_TO_TEST is absent or present with any value.
C29_AtLeastTwoImages ==
  (tool = "scanner" /\ pc = "summarised") =>
    LET argv == ShellWords(locals.comparison_args)
    IN  /\ Len(argv) >= 2
        /\ argv[1] = env.image_name

====
